---- MODULE Spec2Model ----
(***************************************************************************)
(* tgreddit: the poll scheduler (main.rs), the delivery pipeline           *)
(* (handle_post.rs), the persisted tables (db.rs) and the command handlers *)
(* of the bot (bot.rs), as one state machine.                              *)
(*                                                                         *)
(* The poll task and the interaction tasks run concurrently on the tokio   *)
(* runtime; every database statement is one atomic step, and the steps of  *)
(* different tasks interleave freely.                                      *)
(***************************************************************************)
EXTENDS Integers, Sequences, FiniteSets, TLC

(* ---- bounds of the model ---------------------------------------------- *)
MaxCycles == 2
MaxCmds == 1

(* ---- program constants ------------------------------------------------ *)
DEFAULT_LIMIT == 1
DEFAULT_TIME_PERIOD == "Day"

(* ---- value domains ---------------------------------------------------- *)
None == "None"
NULL == <<>>
Chats == {42, 7}
Feeds == {"aww", "pics"}
PostTypes == {"Image", "Video", "Link", "SelfText", "Gallery", "Unknown"}

\* Option<u32>: NoLimit is None, <<n>> is Some(n)
NoLimit == <<>>

\* Option::or
OrElse(a, b) == IF a # None THEN a ELSE b

\* Option<u32>::or(..).unwrap_or(..)
LimitOr(a, b, d) == IF a # NoLimit THEN a[1] ELSE IF b # NoLimit THEN b[1] ELSE d

\* The items the feed source can return for a feed.  The id "abc" exists in
\* both feeds: an id is unique only together with its feed.  A gallery never
\* carries a post_hint.
Image(f) ==
    [id |-> "abc", subreddit |-> f, title |-> "T-abc", post_type |-> "Image",
     post_hint |-> TRUE, gallery_data |-> FALSE]

Video(f) ==
    [id |-> "vid", subreddit |-> f, title |-> "T-vid", post_type |-> "Video",
     post_hint |-> TRUE, gallery_data |-> FALSE]

Gallery(f) ==
    [id |-> "gal", subreddit |-> f, title |-> "T-gal", post_type |-> "Gallery",
     post_hint |-> FALSE, gallery_data |-> TRUE]

Link(f) ==
    [id |-> "lnk", subreddit |-> f, title |-> "T-lnk", post_type |-> "Link",
     post_hint |-> TRUE, gallery_data |-> FALSE]

SelfText(f) ==
    [id |-> "slf", subreddit |-> f, title |-> "T-slf", post_type |-> "SelfText",
     post_hint |-> TRUE, gallery_data |-> FALSE]

\* /r/bestof posts have no post_hint and stay Unknown when fetched again
Unknown(f) ==
    [id |-> "unk", subreddit |-> f, title |-> "T-unk", post_type |-> "Unknown",
     post_hint |-> FALSE, gallery_data |-> FALSE]

Catalogue(f) ==
    IF f = "aww" THEN {Image(f), Video(f)}
    ELSE IF f = "bestof" THEN {Link(f), Unknown(f)}
    ELSE {Image(f), Gallery(f)}

PostIds == {"abc", "vid", "gal", "lnk", "unk"}

RECURSIVE SeqsUpTo(_, _)
SeqsUpTo(S, n) ==
    IF n = 0 THEN {<<>>}
    ELSE LET shorter == SeqsUpTo(S, n - 1)
         IN  shorter \cup {Append(s, x) : s \in {t \in shorter : Len(t) = n - 1}, x \in S}

\* reddit::get_subreddit_top_posts: at most `limit` items of the feed, in the
\* order the feed source chooses, an id possibly more than once.
Listings(f, limit) == SeqsUpTo(Catalogue(f), limit)

\* The arguments a /sub command can carry.
SubArgs ==
    { [subreddit |-> "aww", limit |-> NoLimit, time |-> "Week", filter |-> "Video"],
      [subreddit |-> "pics", limit |-> <<1>>, time |-> None, filter |-> None] }

\* The arguments a /get command can carry.
GetArgs ==
    { [subreddit |-> "aww", limit |-> <<2>>, time |-> None, filter |-> "Video"],
      [subreddit |-> "pics", limit |-> NoLimit, time |-> "Week", filter |-> None] }

\* The configurations the process can be started with.
Configs ==
    { [skip_initial_send |-> s, default_limit |-> NoLimit, default_time |-> None,
       default_filter |-> None, links_base_url |-> None, authorized_user_ids |-> {1001}] : s \in BOOLEAN }

\* The poll task is working on no subscription
NoSub == [chat_id |-> 0, subreddit |-> None, limit |-> NoLimit, time |-> None, filter |-> None]

\* The subscription tables the database can hold when the process starts; the
\* columns time and filter hold text.
InitRegistries ==
    { << [chat_id |-> 42, subreddit |-> "aww", limit |-> <<2>>, time |-> "week",
          filter |-> None] >>,
      << [chat_id |-> 42, subreddit |-> "aww", limit |-> <<2>>, time |-> None,
          filter |-> "video"],
         [chat_id |-> 42, subreddit |-> "pics", limit |-> NoLimit, time |-> None,
          filter |-> None] >> }

VARIABLES
    config,          \* the Config read at startup
    post,            \* table post: rows (post_id, chat_id, subreddit, seen_at, post_title)
    subscription,    \* table subscription, in rowid order
    chat,            \* table chat: rows (chat_id, repost_channel_id)
    telegram_file,   \* table telegram_file, in autoincrement order
    alive,           \* the process is running
    pc,              \* where the poll task is
    cycle,           \* polling cycles started so far
    subs,            \* check_new_posts: the subscriptions read for this cycle
    subIdx,          \* check_new_posts: position in subs
    sub,             \* check_new_posts_for_subscription: its subscription
    posts,           \* check_new_posts_for_subscription: the fetched listing
    postIdx,         \* check_new_posts_for_subscription: position in posts
    only_mark_seen,  \* check_new_posts_for_subscription: backfill mode
    panicCause,      \* why the poll task panicked
    cmds,            \* commands handled so far
    getPc,           \* where the running /get handler is
    getChat,         \* handle_get_command: chat_id
    getPosts,        \* handle_get_command: the posts left to handle
    passLog,         \* history: what check_post_newness did with each item of the listing
    passCalls,       \* history: transport calls made while handling this listing
    outcome,         \* history: how handle_new_post ended for the post being processed
    pollAttempts,    \* history: per (chat, id), the deliveries the scheduler started
    getCount,        \* history: per (chat, id), the deliveries made by /get
    hPc,             \* handle_new_post: where the handler is
    hPost,           \* handle_new_post: post
    hChat,           \* handle_new_post: chat_id
    gTodo,           \* download_gallery: the entries of media_metadata not yet visited
    gFiles,          \* download_gallery: the media ids in the map of downloaded files
    gFailed,         \* history: the media ids whose download failed
    hResult,         \* handle_new_post: how it ended
    sent,            \* history: the transport calls the handler has made
    ytdlp,           \* history: the runs of yt-dlp the handler has started
    inbound,         \* the update the dispatcher received last
    handledBy,       \* the handler the dispatcher gave it to
    reply,           \* the message that handler sent to the chat of the update
    repostCalls,     \* the calls that handler made to a repost channel
    shutdown,        \* main: the AtomicBool shutdown
    shutdown_rx,     \* main: a message waits in the broadcast channel
    sigPc,           \* the position of the signal thread
    ledgerOp,        \* history: the last write to table post and the row it met
    input,           \* unit specifications: the argument the function under study is given
    output,          \* unit specifications: what it returned, <<>> before the call
    opened,          \* Database::open: the connections opened so far
    locked,          \* the connections whose Mutex is held
    dbTask           \* per task: its connection and where it is in its storage operations

vars ==
    << config, post, subscription, chat, telegram_file, alive, pc, cycle, subs, subIdx,
       sub, posts, postIdx, only_mark_seen, panicCause, cmds, getPc, getChat, getPosts,
       passLog, passCalls, outcome, pollAttempts, getCount,
       hPc, hPost, hChat, gTodo, gFiles, gFailed, hResult, sent, ytdlp,
       inbound, handledBy, reply, repostCalls, shutdown, shutdown_rx, sigPc,
       ledgerOp, input, output, opened, locked, dbTask >>

dbVars == << post, subscription, chat, telegram_file >>
pollVars == << pc, cycle, subs, subIdx, sub, posts, postIdx, only_mark_seen, panicCause >>
pollHist == << passLog, passCalls, outcome, pollAttempts >>
botVars == << cmds, getPc, getChat, getPosts, getCount >>
handleVars == << hPc, hPost, hChat, gTodo, gFiles, gFailed, hResult, sent, ytdlp >>

\* The state of the tasks that do not run in every specification
dispatchVars == << inbound, handledBy, reply, repostCalls >>
sigVars == << shutdown, shutdown_rx, sigPc >>
connVars == << opened, locked, dbTask >>
unitVars == << input, output, connVars >>
otherVars == << dispatchVars, sigVars, ledgerOp, unitVars >>
auxVars == << handleVars, otherVars >>

(* ---- db.rs: the statements of Database ------------------------------- *)

\* record_post with "insert or replace": the row of the post is written anew
RecordPostReplaces(tbl, chat_id, p, seen_at) ==
    { r \in tbl : ~(r.post_id = p.id /\ r.chat_id = chat_id) }
        \cup { [post_id |-> p.id, chat_id |-> chat_id, subreddit |-> p.subreddit,
                seen_at |-> seen_at, post_title |-> p.title] }

\* Database::record_post: insert or ignore, then fill seen_at where it is null
RecordPost(tbl, chat_id, p, seen_at) ==
    LET exists == \E r \in tbl : r.post_id = p.id /\ r.chat_id = chat_id
        inserted ==
            IF exists THEN tbl
            ELSE tbl \cup { [post_id |-> p.id, chat_id |-> chat_id,
                             subreddit |-> p.subreddit, seen_at |-> seen_at,
                             post_title |-> p.title] }
    IN  { IF r.post_id = p.id /\ r.chat_id = chat_id /\ r.seen_at = NULL
          THEN [r EXCEPT !.seen_at = seen_at] ELSE r : r \in inserted }

\* record_post_seen_with_current_time passing no time: the row stays pending
RecordPostSeenWithNoTime(tbl, chat_id, p, now) == RecordPost(tbl, chat_id, p, NULL)

\* Database::record_post_seen_with_current_time
RecordPostSeenWithCurrentTime(tbl, chat_id, p, now) == RecordPost(tbl, chat_id, p, now)

\* is_post_seen with the null test inverted: "seen_at is null"
IsPostSeenInverted(tbl, chat_id, p) ==
    \E r \in tbl : r.post_id = p.id /\ r.chat_id = chat_id /\ r.seen_at = NULL

\* is_post_seen without the null test: a pending row counts as seen
IsPostSeenAnyRow(tbl, chat_id, p) ==
    \E r \in tbl : r.post_id = p.id /\ r.chat_id = chat_id

\* is_post_seen keyed by the feed as well: (post_id, chat_id, subreddit)
IsPostSeenInFeed(tbl, chat_id, p) ==
    \E r \in tbl : /\ r.post_id = p.id /\ r.chat_id = chat_id /\ r.seen_at # NULL
                   /\ r.subreddit = p.subreddit

\* Database::is_post_seen
IsPostSeen(tbl, chat_id, p) ==
    \E r \in tbl : r.post_id = p.id /\ r.chat_id = chat_id /\ r.seen_at # NULL

\* existing_posts_for_subreddit without the subreddit test: any row of the chat
ExistingPostsForChat(tbl, chat_id, subreddit) ==
    \E r \in tbl : r.chat_id = chat_id

\* existing_posts_for_subreddit counting only the rows marked seen
ExistingSeenPostsForSubreddit(tbl, chat_id, subreddit) ==
    \E r \in tbl : r.chat_id = chat_id /\ r.subreddit = subreddit /\ r.seen_at # NULL

\* Database::existing_posts_for_subreddit
ExistingPostsForSubreddit(tbl, chat_id, subreddit) ==
    \E r \in tbl : r.chat_id = chat_id /\ r.subreddit = subreddit

\* ensure_chat_exists without the exists query: a row is inserted at every call
EnsureChatExistsInserts(tbl, chat_id) ==
    tbl \cup { [chat_id |-> chat_id, repost_channel_id |-> NULL] }

\* Database::ensure_chat_exists
EnsureChatExists(tbl, chat_id) ==
    IF \E r \in tbl : r.chat_id = chat_id THEN tbl
    ELSE tbl \cup { [chat_id |-> chat_id, repost_channel_id |-> NULL] }

\* ToSql for TopPostsTimePeriod: the text of to_string; None is stored as null
TimeToSql(t) ==
    CASE t = None -> None
      [] t = "Week" -> "week"

\* FromSql for TopPostsTimePeriod: from_str of the text
TimeFromSql(text) ==
    CASE text = None -> None
      [] text = "week" -> "Week"

\* ToSql for PostType
FilterToSql(f) ==
    CASE f = None -> None
      [] f = "Video" -> "video"

\* FromSql for PostType
FilterFromSql(text) ==
    CASE text = None -> None
      [] text = "video" -> "Video"

\* TryFrom<&Row> for Subscription
SubscriptionFromRow(r) ==
    [chat_id |-> r.chat_id, subreddit |-> r.subreddit, limit |-> r.limit,
     time |-> TimeFromSql(r.time), filter |-> FilterFromSql(r.filter)]

\* subscribe with a plain insert and no key: a second row for the same feed
SubscribeInserts(reg, chat_id, args) ==
    Append(reg,
           [chat_id |-> chat_id, subreddit |-> args.subreddit, limit |-> args.limit,
            time |-> TimeToSql(args.time), filter |-> FilterToSql(args.filter)])

\* Database::subscribe: insert or replace on the key (subreddit, chat_id); the
\* replaced row is deleted and the new row gets the next rowid
Subscribe(reg, chat_id, args) ==
    Append(SelectSeq(reg, LAMBDA r : ~(r.chat_id = chat_id /\ r.subreddit = args.subreddit)),
           [chat_id |-> chat_id, subreddit |-> args.subreddit, limit |-> args.limit,
            time |-> TimeToSql(args.time), filter |-> FilterToSql(args.filter)])

\* SQL LIKE on the feed names of the model: "%" matches every name
Like(name, pattern) == pattern = "%" \/ pattern = name

\* Database::unsubscribe: the rows the delete statement removes
UnsubscribeMatches(reg, chat_id, pattern) ==
    SelectSeq(reg, LAMBDA r : r.chat_id = chat_id /\ Like(r.subreddit, pattern))

\* Database::unsubscribe: the table after the delete statement
Unsubscribe(reg, chat_id, pattern) ==
    SelectSeq(reg, LAMBDA r : ~(r.chat_id = chat_id /\ Like(r.subreddit, pattern)))

\* Database::get_all_subscriptions
GetAllSubscriptions(reg) == [i \in 1..Len(reg) |-> SubscriptionFromRow(reg[i])]

\* Database::add_telegram_file: insert or ignore on (post_id, chat_id, unique id)
AddTelegramFile(tbl, post_id, chat_id, file_id, unique_id) ==
    IF \E i \in 1..Len(tbl) : /\ tbl[i].post_id = post_id
                              /\ tbl[i].chat_id = chat_id
                              /\ tbl[i].telegram_file_unique_id = unique_id
    THEN tbl
    ELSE Append(tbl, [post_id |-> post_id, chat_id |-> chat_id,
                      telegram_file_id |-> file_id,
                      telegram_file_unique_id |-> unique_id])
(* ---- handle_post.rs: what handling one post can do -------------------- *)

\* reddit::get_link: the full item; its gallery metadata (gallery_data and
\* media_metadata) may be present or absent
Refetched(p) ==
    IF p.post_type = "Gallery" THEN { [p EXCEPT !.gallery_data = g] : g \in BOOLEAN }
    ELSE {p}

\* handle_new_post, the match on post_type: the ways each handler can end.
\*   ok              every call succeeded
\*   resolver_err    the download or the transcoding failed, nothing was sent
\*   transport_err   the send call failed
\*   files_err       the media group was sent, storing its file handles failed
\*   repost_msg_err  the media group was sent and stored, the "To repost:"
\*                   message failed
\*   panic_gallery   gallery_data or media_metadata is None (expect)
Dispatch(q) ==
    CASE q.post_type \in {"Image", "Video"} -> {"ok", "resolver_err", "transport_err"}
      [] q.post_type \in {"Link", "SelfText", "Unknown"} -> {"ok", "transport_err"}
      [] q.post_type = "Gallery" ->
            IF q.gallery_data
            THEN {"ok", "resolver_err", "transport_err", "files_err", "repost_msg_err"}
            ELSE {"panic_gallery"}

\* handle_new_post: a post without post_hint is fetched again first, and the
\* unwrap of that fetch panics when it fails
HandleNewPost(p) ==
    IF p.post_hint THEN Dispatch(p)
    ELSE {"panic_get_link"} \cup UNION { Dispatch(q) : q \in Refetched(p) }

Panics == {"panic_get_link", "panic_gallery"}

\* The transport send calls a handler has made when it ends with outcome o
TransportCalls(p, o) ==
    CASE o \in Panics \cup {"resolver_err"} -> 0
      [] o \in {"transport_err", "files_err"} -> 1
      [] o = "repost_msg_err" -> 2
      [] o = "ok" -> IF p.post_type = "Gallery" THEN 2 ELSE 1

\* The media of the gallery item, in the order of gallery_data.items
GalleryItems == << "m1", "m2", "m3" >>

\* The transport names an uploaded file; a later upload of the same media may
\* be given the same unique id or a new one
UploadTags == {"u1"}

RECURSIVE AddFiles(_, _, _, _, _)
\* handle_new_gallery_post, the loop over the sent messages: add_telegram_file
\* for the first n of them
AddFiles(tbl, post_id, chat_id, tag, n) ==
    IF n = 0 THEN tbl
    ELSE AddTelegramFile(AddFiles(tbl, post_id, chat_id, tag, n - 1), post_id, chat_id,
                         << GalleryItems[n], tag >>, << GalleryItems[n], tag >>)

\* The tables telegram_file can be left in by a handler that ends with outcome o
FilesAfter(tbl, p, chat_id, o) ==
    CASE p.post_type = "Gallery" /\ o \in {"ok", "repost_msg_err"} ->
            { AddFiles(tbl, p.id, chat_id, t, Len(GalleryItems)) : t \in UploadTags }
      [] o = "files_err" ->
            { AddFiles(tbl, p.id, chat_id, t, n) :
                t \in UploadTags, n \in 0..(Len(GalleryItems) - 1) }
      [] OTHER -> {tbl}
(* ---- main.rs: the poll task ------------------------------------------- *)

\* main: no signal has arrived
SignalIdle ==
    /\ shutdown = FALSE
    /\ shutdown_rx = FALSE
    /\ sigPc = "wait"
    /\ ledgerOp = <<>>

\* No function is studied on its own
UnitIdle ==
    /\ input = <<>>
    /\ output = <<>>

\* The tasks that use the database: the poll task and a /get handler
Tasks == {"poll", "get"}

\* A task that holds no connection
NoConn == [pc |-> "idle", handle |-> 0, chat_id |-> 0, item |-> None, met |-> None]

\* No task has opened a connection
ConnIdle ==
    /\ opened = 0
    /\ locked = {}
    /\ dbTask = [t \in Tasks |-> NoConn]

\* The dispatcher has received no update
DispatchIdle ==
    /\ inbound = <<>>
    /\ handledBy = None
    /\ reply = <<>>
    /\ repostCalls = <<>>

\* No handle_new_post is running
HandleIdle ==
    /\ hPc = "idle"
    /\ hPost = None
    /\ hChat = 0
    /\ gTodo = {}
    /\ gFiles = {}
    /\ gFailed = {}
    /\ hResult = None
    /\ sent = <<>>
    /\ ytdlp = 0
    /\ DispatchIdle
    /\ SignalIdle

Init ==
    /\ config \in Configs
    /\ post = {}
    /\ subscription \in InitRegistries
    /\ chat = { [chat_id |-> subscription[i].chat_id, repost_channel_id |-> NULL] :
                  i \in 1..Len(subscription) }
    /\ telegram_file = <<>>
    /\ alive = TRUE
    /\ pc = "sleep"
    /\ cycle = 0
    /\ subs = <<>>
    /\ subIdx = 0
    /\ sub = NoSub
    /\ posts = <<>>
    /\ postIdx = 0
    /\ only_mark_seen = FALSE
    /\ panicCause = None
    /\ cmds = 0
    /\ getPc = "idle"
    /\ getChat = 0
    /\ getPosts = <<>>
    /\ passLog = <<>>
    /\ passCalls = 0
    /\ outcome = None
    /\ pollAttempts = [k \in Chats \X PostIds |-> 0]
    /\ getCount = [k \in Chats \X PostIds |-> 0]
    /\ HandleIdle
    /\ UnitIdle
    /\ ConnIdle

\* The post check_post_newness is called with
CurPost == posts[postIdx]

\* check_new_posts_for_subscription: sub.filter.or(config.default_filter)
SubFilter(sb) == OrElse(sb.filter, config.default_filter)

\* check_new_posts_for_subscription: sub.limit.or(default_limit).unwrap_or(DEFAULT_LIMIT)
SubLimit(sb) == LimitOr(sb.limit, config.default_limit, DEFAULT_LIMIT)

\* check_post_newness: filter.is_some() && filter != Some(post.post_type)
FilterRejects(filter, p) == filter # None /\ filter # p.post_type

\* chrono::Utc::now(): some time.  The program stores it in seen_at and never
\* reads it back, it only tests seen_at for null.
Now == << "now" >>

\* check_new_posts: the loop over subs goes on with the next subscription, and
\* the cycle ends after the last one
NextSub ==
    IF subIdx < Len(subs)
    THEN /\ subIdx' = subIdx + 1
         /\ pc' = "fetch"
    ELSE /\ subIdx' = subIdx
         /\ pc' = "sleep"

\* The loop over posts run a second time over the listing before it ends
NextPostAgain ==
    IF postIdx < Len(posts)
    THEN /\ postIdx' = postIdx + 1
         /\ pc' = "check"
         /\ subIdx' = subIdx
    ELSE IF Len(passLog) < Len(posts)
    THEN /\ postIdx' = 1
         /\ pc' = "check"
         /\ subIdx' = subIdx
    ELSE /\ postIdx' = postIdx
         /\ pc' = "subdone"
         /\ subIdx' = subIdx

\* check_new_posts_for_subscription: the loop over posts goes on with the next
\* post, and ends after the last one
NextPost ==
    IF postIdx < Len(posts)
    THEN /\ postIdx' = postIdx + 1
         /\ pc' = "check"
         /\ subIdx' = subIdx
    ELSE /\ postIdx' = postIdx
         /\ pc' = "subdone"
         /\ subIdx' = subIdx

\* main, the loop of sub_check_loop_handle: check_new_posts reads the
\* subscriptions and starts on the first one
PollStartCycle ==
    /\ alive /\ pc = "sleep" /\ cycle < MaxCycles
    /\ ~shutdown
    /\ cycle' = cycle + 1
    /\ subs' = GetAllSubscriptions(subscription)
    /\ IF subs' = <<>>
       THEN pc' = "sleep" /\ subIdx' = 0
       ELSE pc' = "fetch" /\ subIdx' = 1
    /\ UNCHANGED << config, auxVars, dbVars, alive, sub, posts, postIdx, only_mark_seen, panicCause,
                    botVars, pollHist >>

\* check_new_posts: opening the database or reading the subscriptions fails;
\* the error is logged by the loop in main and the task sleeps
PollStartCycleErr ==
    /\ alive /\ pc = "sleep" /\ cycle < MaxCycles
    /\ ~shutdown
    /\ cycle' = cycle + 1
    /\ UNCHANGED << config, auxVars, dbVars, alive, pc, subs, subIdx, sub, posts, postIdx,
                    only_mark_seen, panicCause, botVars, pollHist >>

\* The fetch error returned with `?` up to the loop in main: the cycle ends
PollFetchErrAborts ==
    /\ alive /\ pc = "fetch"
    /\ sub' = subs[subIdx]
    /\ passLog' = << "fetch_err" >>
    /\ pc' = "sleep"
    /\ UNCHANGED << config, auxVars, dbVars, alive, cycle, subs, subIdx, posts, postIdx,
                    only_mark_seen, panicCause, botVars, passCalls, outcome, pollAttempts >>

\* check_new_posts_for_subscription: get_subreddit_top_posts fails; the error
\* is logged and the function returns Ok
PollFetchErr ==
    /\ alive /\ pc = "fetch"
    /\ sub' = subs[subIdx]
    /\ passLog' = << "fetch_err" >>
    /\ pc' = "subdone"
    /\ UNCHANGED << config, auxVars, dbVars, alive, cycle, subs, subIdx, posts, postIdx,
                    only_mark_seen, panicCause, botVars, passCalls, outcome, pollAttempts >>

\* check_new_posts_for_subscription: the listing arrives, but opening the
\* database or the existing_posts_for_subreddit query fails; the error is
\* returned and logged by check_new_posts
PollFetchDbErr ==
    /\ alive /\ pc = "fetch"
    /\ sub' = subs[subIdx]
    /\ passLog' = << "db_err" >>
    /\ pc' = "subdone"
    /\ UNCHANGED << config, auxVars, dbVars, alive, cycle, subs, subIdx, posts, postIdx,
                    only_mark_seen, panicCause, botVars, passCalls, outcome, pollAttempts >>

\* check_new_posts_for_subscription: the listing arrives and the backfill mode
\* is decided from the ledger
PollFetchOk ==
    /\ alive /\ pc = "fetch"
    /\ \E listing \in Listings(subs[subIdx].subreddit, SubLimit(subs[subIdx])) :
         /\ sub' = subs[subIdx]
         /\ posts' = listing
         /\ only_mark_seen' =
              (~ExistingPostsForSubreddit(post, subs[subIdx].chat_id, subs[subIdx].subreddit)
               /\ config.skip_initial_send)
         /\ passLog' = <<>> /\ passCalls' = 0
         /\ IF listing = <<>>
            THEN postIdx' = 0 /\ pc' = "subdone"
            ELSE postIdx' = 1 /\ pc' = "check"
    /\ subIdx' = subIdx
    /\ UNCHANGED << config, auxVars, dbVars, alive, cycle, subs, panicCause, botVars, outcome, pollAttempts >>

\* check_new_posts_for_subscription returns (after the loop over posts, after
\* the logged fetch error, or with the error of the backfill query, which
\* check_new_posts logs) and check_new_posts goes on
PollSubDone ==
    /\ alive /\ pc = "subdone"
    /\ posts' = <<>> /\ postIdx' = 0
    /\ passLog' = <<>> /\ passCalls' = 0
    /\ only_mark_seen' = FALSE
    /\ sub' = NoSub
    /\ NextSub
    /\ UNCHANGED << config, auxVars, dbVars, alive, cycle, subs, panicCause, botVars, outcome, pollAttempts >>

\* The filter test placed after the mark: a rejected post is marked seen
PollCheckFilteredMarks ==
    /\ alive /\ pc = "check"
    /\ FilterRejects(SubFilter(sub), CurPost)
    /\ post' = RecordPostSeenWithCurrentTime(post, sub.chat_id, CurPost, Now)
    /\ passLog' = Append(passLog, "filtered")
    /\ NextPost
    /\ UNCHANGED << config, auxVars, subscription, chat, telegram_file, alive, cycle, subs, sub,
                    posts, only_mark_seen, panicCause, botVars, passCalls, outcome,
                    pollAttempts >>

\* check_post_newness: the filter rejects the post, and the function returns
PollCheckFiltered ==
    /\ alive /\ pc = "check"
    /\ FilterRejects(SubFilter(sub), CurPost)
    /\ passLog' = Append(passLog, "filtered")
    /\ NextPost
    /\ UNCHANGED << config, auxVars, dbVars, alive, cycle, subs, sub, posts, only_mark_seen,
                    panicCause, botVars, passCalls, outcome, pollAttempts >>

\* check_post_newness: opening the database fails; the error is returned and
\* logged by the loop over posts
PollCheckOpenErr ==
    /\ alive /\ pc = "check"
    /\ passLog' = Append(passLog, "open_err")
    /\ NextPost
    /\ UNCHANGED << config, auxVars, dbVars, alive, cycle, subs, sub, posts, only_mark_seen,
                    panicCause, botVars, passCalls, outcome, pollAttempts >>

\* check_post_newness: the is_post_seen query fails and its expect panics
PollCheckReadErr ==
    /\ alive /\ pc = "check"
    /\ ~FilterRejects(SubFilter(sub), CurPost)
    /\ pc' = "panicked"
    /\ panicCause' = "ledger_read"
    /\ UNCHANGED << config, auxVars, dbVars, alive, cycle, subs, subIdx, sub, posts, postIdx,
                    only_mark_seen, botVars, pollHist >>

\* check_post_newness: the post is already seen, and the function returns
PollCheckSeen ==
    /\ alive /\ pc = "check"
    /\ ~FilterRejects(SubFilter(sub), CurPost)
    /\ IsPostSeen(post, sub.chat_id, CurPost)
    /\ passLog' = Append(passLog, "seen")
    /\ NextPost
    /\ UNCHANGED << config, auxVars, dbVars, alive, cycle, subs, sub, posts, only_mark_seen,
                    panicCause, botVars, passCalls, outcome, pollAttempts >>

\* check_post_newness without the test of only_mark_seen
PollCheckNewAlwaysProcess ==
    /\ alive /\ pc = "check"
    /\ ~FilterRejects(SubFilter(sub), CurPost)
    /\ ~IsPostSeen(post, sub.chat_id, CurPost)
    /\ pc' = "process"
    /\ UNCHANGED << config, auxVars, dbVars, alive, cycle, subs, subIdx, sub, posts, postIdx,
                    only_mark_seen, panicCause, botVars, pollHist >>

\* check_post_newness: the post is new; it is processed unless only_mark_seen
PollCheckNew ==
    /\ alive /\ pc = "check"
    /\ ~FilterRejects(SubFilter(sub), CurPost)
    /\ ~IsPostSeen(post, sub.chat_id, CurPost)
    /\ pc' = IF only_mark_seen THEN "mark" ELSE "process"
    /\ UNCHANGED << config, auxVars, dbVars, alive, cycle, subs, subIdx, sub, posts, postIdx,
                    only_mark_seen, panicCause, botVars, pollHist >>

\* process_post without its write: the post is handled before it is marked
PollProcessRecordSkipped ==
    /\ alive /\ pc = "process"
    /\ pc' = "deliver"
    /\ UNCHANGED << config, auxVars, dbVars, alive, cycle, subs, subIdx, sub, posts, postIdx,
                    only_mark_seen, panicCause, botVars, pollHist >>

\* process_post: record_post_seen_with_current_time, before the post is handled
PollProcessRecord ==
    /\ alive /\ pc = "process"
    /\ post' = RecordPostSeenWithCurrentTime(post, sub.chat_id, CurPost, Now)
    /\ pc' = "deliver"
    /\ UNCHANGED << config, auxVars, subscription, chat, telegram_file, alive, cycle, subs, subIdx,
                    sub, posts, postIdx, only_mark_seen, panicCause, botVars, pollHist >>

\* process_post: that write fails; the error is returned through
\* check_post_newness and logged by the loop over posts
PollProcessRecordErr ==
    /\ alive /\ pc = "process"
    /\ passLog' = Append(passLog, "write_err")
    /\ NextPost
    /\ UNCHANGED << config, auxVars, dbVars, alive, cycle, subs, sub, posts, only_mark_seen,
                    panicCause, botVars, passCalls, outcome, pollAttempts >>

\* process_post: handle_new_post runs and its error, if any, is logged and dropped
PollDeliver ==
    /\ alive /\ pc = "deliver"
    /\ \E o \in HandleNewPost(CurPost) :
         /\ outcome' = o
         /\ passCalls' = passCalls + TransportCalls(CurPost, o)
         /\ telegram_file' \in FilesAfter(telegram_file, CurPost, sub.chat_id, o)
         /\ IF o \in Panics
            THEN pc' = "panicked" /\ panicCause' = o
            ELSE pc' = "mark" /\ panicCause' = panicCause
    /\ pollAttempts' = [pollAttempts EXCEPT ![<<sub.chat_id, CurPost.id>>] = @ + 1]
    /\ passLog' = passLog
    /\ UNCHANGED << config, auxVars, post, subscription, chat, alive, cycle, subs, subIdx, sub, posts,
                    postIdx, only_mark_seen, botVars >>

\* check_post_newness: record_post_seen_with_current_time after process_post,
\* or instead of it when only_mark_seen
PollMark ==
    /\ alive /\ pc = "mark"
    /\ post' = RecordPostSeenWithCurrentTime(post, sub.chat_id, CurPost, Now)
    /\ passLog' = Append(passLog, IF only_mark_seen THEN "marked" ELSE outcome)
    /\ outcome' = None
    /\ NextPost
    /\ UNCHANGED << config, auxVars, subscription, chat, telegram_file, alive, cycle, subs, sub,
                    posts, only_mark_seen, panicCause, botVars, passCalls, pollAttempts >>

\* check_post_newness: that write fails; the error is logged by the loop over posts
PollMarkErr ==
    /\ alive /\ pc = "mark"
    /\ passLog' = Append(passLog, IF only_mark_seen THEN "write_err" ELSE outcome)
    /\ outcome' = None
    /\ NextPost
    /\ UNCHANGED << config, auxVars, dbVars, alive, cycle, subs, sub, posts, only_mark_seen,
                    panicCause, botVars, passCalls, pollAttempts >>

\* main: the panic of the poll task ends its JoinHandle with an error,
\* try_join! returns it and main panics: the process ends
MainTryJoin ==
    /\ alive /\ pc = "panicked"
    /\ alive' = FALSE
    /\ UNCHANGED << config, auxVars, dbVars, pollVars, botVars, pollHist >>
(* ---- bot.rs: the command handlers ------------------------------------- *)

\* handle_command, Command::Sub: the feed exists and the chat is subscribed
CmdSub ==
    /\ alive /\ cmds < MaxCmds
    /\ \E c \in Chats, args \in SubArgs :
         /\ chat' = EnsureChatExists(chat, c)
         /\ subscription' = Subscribe(subscription, c, args)
    /\ cmds' = cmds + 1
    /\ UNCHANGED << config, auxVars, post, telegram_file, alive, pollVars, pollHist, getPc, getChat,
                    getPosts, getCount >>

\* handle_command, Command::Sub: get_subreddit_about answers NoSuchSubreddit or
\* fails, and the user is told so
CmdSubRejected ==
    /\ alive /\ cmds < MaxCmds
    /\ cmds' = cmds + 1
    /\ UNCHANGED << config, auxVars, dbVars, alive, pollVars, pollHist, getPc, getChat, getPosts,
                    getCount >>

\* The texts a user can give /unsub
UnsubInputs == Feeds \cup {"%"}

\* An unsubscribe that also deletes the ledger rows of the chat
CmdUnsubCascade ==
    /\ alive /\ cmds < MaxCmds
    /\ \E c \in Chats, name \in Feeds \cup {"%"} :
         /\ subscription' = Unsubscribe(subscription, c, name)
         /\ post' = { r \in post : ~(r.chat_id = c /\ Like(r.subreddit, name)) }
    /\ cmds' = cmds + 1
    /\ UNCHANGED << config, auxVars, chat, telegram_file, alive, pollVars, pollHist, getPc,
                    getChat, getPosts, getCount >>

\* handle_command, Command::Unsub: Database::unsubscribe, whose error (no row
\* returned) becomes the reply "Error: Not subscribed"
CmdUnsub ==
    /\ alive /\ cmds < MaxCmds
    /\ \E c \in Chats, name \in UnsubInputs :
         subscription' = Unsubscribe(subscription, c, name)
    /\ cmds' = cmds + 1
    /\ UNCHANGED << config, auxVars, post, chat, telegram_file, alive, pollVars, pollHist, getPc,
                    getChat, getPosts, getCount >>

\* handle_get_command: filter.or(config.default_filter)
GetFilter(args) == OrElse(args.filter, config.default_filter)

\* handle_get_command: limit.or(default_limit).unwrap_or(DEFAULT_LIMIT)
GetLimit(args) == LimitOr(args.limit, config.default_limit, DEFAULT_LIMIT)

\* handle_get_command: the fetched posts that pass the filter
GetFiltered(listing, filter) ==
    SelectSeq(listing, LAMBDA q : IF filter # None THEN filter = q.post_type ELSE TRUE)

\* handle_get_command: the listing is fetched and filtered; without posts the
\* user is told "No posts found"
CmdGetFetch ==
    /\ alive /\ cmds < MaxCmds /\ getPc = "idle"
    /\ \E c \in Chats, args \in GetArgs :
         \E listing \in Listings(args.subreddit, GetLimit(args)) :
            /\ getChat' = c
            /\ getPosts' = GetFiltered(listing, GetFilter(args))
            /\ getPc' = IF getPosts' = <<>> THEN "idle" ELSE "run"
    /\ cmds' = cmds + 1
    /\ UNCHANGED << config, auxVars, dbVars, alive, pollVars, pollHist, getCount >>

\* handle_get_command: get_subreddit_top_posts fails; handle_command logs the
\* error and answers "Something went wrong"
CmdGetFetchErr ==
    /\ alive /\ cmds < MaxCmds /\ getPc = "idle"
    /\ cmds' = cmds + 1
    /\ UNCHANGED << config, auxVars, dbVars, alive, pollVars, pollHist, getPc, getChat, getPosts,
                    getCount >>

\* handle_get_command without its record_post
GetItemNoRecord ==
    /\ alive /\ getPc = "run"
    /\ LET p == Head(getPosts)
       IN  \E o \in HandleNewPost(p) :
                /\ getCount' = [getCount EXCEPT ![<<getChat, p.id>>] = @ + 1]
                /\ telegram_file' \in FilesAfter(telegram_file, p, getChat, o)
                /\ IF o \in Panics
                   THEN /\ getPc' = "idle" /\ getPosts' = <<>>
                        /\ alive' \in BOOLEAN
                   ELSE /\ getPosts' = Tail(getPosts)
                        /\ getPc' = IF getPosts' = <<>> THEN "idle" ELSE "run"
                        /\ alive' = alive
    /\ UNCHANGED << config, auxVars, post, subscription, chat, pollVars, pollHist, cmds, getChat >>

\* handle_get_command, the loop over posts: record_post with no seen_at, then
\* handle_new_post, whose error is logged and dropped.  A panic of
\* handle_new_post ends the handler; whether the dispatcher survives it is not
\* decided by this repository, so both are possible.
GetItem ==
    /\ alive /\ getPc = "run"
    /\ LET p == Head(getPosts)
       IN  /\ post' = RecordPost(post, getChat, p, NULL)
           /\ \E o \in HandleNewPost(p) :
                /\ getCount' = [getCount EXCEPT ![<<getChat, p.id>>] = @ + 1]
                /\ telegram_file' \in FilesAfter(telegram_file, p, getChat, o)
                /\ IF o \in Panics
                   THEN /\ getPc' = "idle" /\ getPosts' = <<>>
                        /\ alive' \in BOOLEAN
                   ELSE /\ getPosts' = Tail(getPosts)
                        /\ getPc' = IF getPosts' = <<>> THEN "idle" ELSE "run"
                        /\ alive' = alive
    /\ UNCHANGED << config, auxVars, subscription, chat, pollVars, pollHist, cmds, getChat >>

\* handle_get_command: record_post fails; the handler returns the error and
\* the user is told "Something went wrong"
GetItemErr ==
    /\ alive /\ getPc = "run"
    /\ getPc' = "idle" /\ getPosts' = <<>>
    /\ UNCHANGED << config, auxVars, dbVars, alive, pollVars, pollHist, cmds, getChat, getCount >>

(* ---- handle_post.rs: handle_new_post, call by call --------------------- *)

\* The posts handle_new_post can be called with, one of every post type
HandlePosts ==
    { Image("aww"), Video("aww"), Gallery("pics"), Link("aww"), SelfText("aww"),
      Unknown("aww") }

\* The configurations that differ in links_base_url
HandleConfigs ==
    { [skip_initial_send |-> FALSE, default_limit |-> NoLimit, default_time |-> None,
       default_filter |-> None, links_base_url |-> b, authorized_user_ids |-> {1001}] : b \in {None, "https://base"} }

\* format_meta_html that never adds the old-reddit permalink
FormatMetaHtmlNoOld(p, links_base_url) ==
    << << "anchor", "/r/", p.subreddit, IF links_base_url # None THEN links_base_url ELSE "www" >>,
       << "anchor", "comments", p.id, IF links_base_url # None THEN links_base_url ELSE "www" >> >>

\* messages::format_meta_html: the feed link and the comments permalink, and
\* the old-reddit permalink when no links_base_url is configured
FormatMetaHtml(p, links_base_url) ==
    IF links_base_url # None
    THEN << << "anchor", "/r/", p.subreddit, links_base_url >>,
            << "anchor", "comments", p.id, links_base_url >> >>
    ELSE << << "anchor", "/r/", p.subreddit, "www" >>,
            << "anchor", "comments", p.id, "www" >>,
            << "anchor", "old", p.id, "old" >> >>

\* messages::format_media_caption_html: the title, then the meta line
FormatMediaCaptionHtml(p, links_base_url) ==
    << << "text", p.title >> >> \o FormatMetaHtml(p, links_base_url)

\* messages::format_link_message_html: the title as an anchor to the url, then
\* the meta line
FormatLinkMessageHtml(p, links_base_url) ==
    << << "anchor", p.title, p.id, "url" >> >> \o FormatMetaHtml(p, links_base_url)

\* One call of the messaging transport: a message with text or caption, or a
\* media group whose members carry their own captions
Call(method, chat_id, text, media, reply_markup, ok) ==
    [method |-> method, chat_id |-> chat_id, text |-> text, media |-> media,
     reply_markup |-> reply_markup, ok |-> ok]

\* The media group built from the last gallery item to the first
MediaGroupBackwards(files, caption) ==
    LET found == SelectSeq(GalleryItems, LAMBDA m : m \in files)
    IN  [i \in 1..Len(found) |->
            [media |-> found[Len(found) + 1 - i], caption |-> IF i = 1 THEN caption ELSE <<>>]]

\* handle_new_gallery_post, the loop over gallery_data.items: the members of
\* the media group, in the order of the gallery; the first one pushed carries
\* the caption
MediaGroup(files, caption) ==
    LET found == SelectSeq(GalleryItems, LAMBDA m : m \in files)
    IN  [i \in 1..Len(found) |->
            [media |-> found[i], caption |-> IF i = 1 THEN caption ELSE <<>>]]

\* The key sets media_metadata can have: an entry for every gallery item,
\* none for the second one, or none for the first one
MediaMetadataMaps == { {"m1", "m2", "m3"}, {"m1", "m3"}, {"m2", "m3"} }

RECURSIVE StoreFiles(_, _, _, _, _, _)
\* handle_new_gallery_post, the loop over the sent messages: add_telegram_file
\* for the first n of them
StoreFiles(tbl, post_id, chat_id, group, tag, n) ==
    IF n = 0 THEN tbl
    ELSE AddTelegramFile(StoreFiles(tbl, post_id, chat_id, group, tag, n - 1), post_id,
                         chat_id, << group[n].media, tag >>, << group[n].media, tag >>)

\* The handler returns
HandleReturn(result) ==
    /\ hPc' = "done"
    /\ hResult' = result

\* handle_new_post: the post has a post_hint and is dispatched as it is
HandleHinted ==
    /\ alive /\ hPc = "start"
    /\ hPost.post_hint
    /\ hPc' = "dispatch"
    /\ UNCHANGED << config, dbVars, alive, pollVars, pollHist, botVars, otherVars, hPost, hChat, gTodo,
                    gFiles, gFailed, hResult, sent, ytdlp >>

\* handle_new_post: the post has no post_hint and reddit::get_link returns it
HandleGetLink ==
    /\ alive /\ hPc = "start"
    /\ ~hPost.post_hint
    /\ hPost' \in Refetched(hPost)
    /\ hPc' = "dispatch"
    /\ UNCHANGED << config, dbVars, alive, pollVars, pollHist, botVars, otherVars, hChat, gTodo,
                    gFiles, gFailed, hResult, sent, ytdlp >>

\* handle_new_post: reddit::get_link fails and the unwrap panics
HandleGetLinkPanic ==
    /\ alive /\ hPc = "start"
    /\ ~hPost.post_hint
    /\ HandleReturn("panic_get_link")
    /\ UNCHANGED << config, dbVars, alive, pollVars, pollHist, botVars, otherVars, hPost, hChat, gTodo,
                    gFiles, gFailed, sent, ytdlp >>

\* handle_new_image_post: download_url_to_tmp; the extension of the file
\* decides between send_video (gif) and send_photo
HandleImageDownload ==
    /\ alive /\ hPc = "dispatch"
    /\ hPost.post_type = "Image"
    /\ \E is_gif \in BOOLEAN : hPc' = IF is_gif THEN "send_gif" ELSE "send_photo"
    /\ UNCHANGED << config, dbVars, alive, pollVars, pollHist, botVars, otherVars, hPost, hChat, gTodo,
                    gFiles, gFailed, hResult, sent, ytdlp >>

\* handle_new_image_post: the download fails
HandleImageDownloadErr ==
    /\ alive /\ hPc = "dispatch"
    /\ hPost.post_type = "Image"
    /\ HandleReturn("resolver_err")
    /\ UNCHANGED << config, dbVars, alive, pollVars, pollHist, botVars, otherVars, hPost, hChat, gTodo,
                    gFiles, gFailed, sent, ytdlp >>

\* handle_new_image_post: send_video for a gif, send_photo otherwise
HandleImageSend ==
    /\ alive /\ hPc \in {"send_gif", "send_photo"}
    /\ \E ok \in BOOLEAN :
         /\ sent' = Append(sent,
                Call(IF hPc = "send_gif" THEN "send_video" ELSE "send_photo", hChat,
                     FormatMediaCaptionHtml(hPost, config.links_base_url), <<>>, "post", ok))
         /\ HandleReturn(IF ok THEN "ok" ELSE "transport_err")
    /\ UNCHANGED << config, dbVars, alive, pollVars, pollHist, botVars, otherVars, hPost, hChat, gTodo,
                    gFiles, gFailed, ytdlp >>

\* handle_new_video_post: ytdlp::download runs yt-dlp
HandleVideoDownload ==
    /\ alive /\ hPc = "dispatch"
    /\ hPost.post_type = "Video"
    /\ ytdlp' = ytdlp + 1
    /\ \E ok \in BOOLEAN :
         IF ok THEN hPc' = "send_video" /\ hResult' = hResult
         ELSE HandleReturn("resolver_err")
    /\ UNCHANGED << config, dbVars, alive, pollVars, pollHist, botVars, otherVars, hPost, hChat, gTodo,
                    gFiles, gFailed, sent >>

\* handle_new_video_post: send_video
HandleVideoSend ==
    /\ alive /\ hPc = "send_video"
    /\ \E ok \in BOOLEAN :
         /\ sent' = Append(sent,
                Call("send_video", hChat,
                     FormatMediaCaptionHtml(hPost, config.links_base_url), <<>>, "post", ok))
         /\ HandleReturn(IF ok THEN "ok" ELSE "transport_err")
    /\ UNCHANGED << config, dbVars, alive, pollVars, pollHist, botVars, otherVars, hPost, hChat, gTodo,
                    gFiles, gFailed, ytdlp >>

\* handle_new_post with no arm for PostType::Unknown: the post is refused and
\* nothing is sent
HandleLinkSendRefusesUnknown ==
    /\ alive /\ hPc = "dispatch"
    /\ hPost.post_type \in {"Link", "Unknown"}
    /\ IF hPost.post_type = "Unknown"
       THEN /\ sent' = sent
            /\ HandleReturn("resolver_err")
       ELSE \E ok \in BOOLEAN :
              /\ sent' = Append(sent,
                     Call("send_message", hChat,
                          FormatLinkMessageHtml(hPost, config.links_base_url), <<>>, "post", ok))
              /\ HandleReturn(IF ok THEN "ok" ELSE "transport_err")
    /\ UNCHANGED << config, dbVars, alive, pollVars, pollHist, botVars, otherVars, hPost, hChat, gTodo,
                    gFiles, gFailed, ytdlp >>

\* handle_new_link_post, also for PostType::Unknown: send_message
HandleLinkSend ==
    /\ alive /\ hPc = "dispatch"
    /\ hPost.post_type \in {"Link", "Unknown"}
    /\ \E ok \in BOOLEAN :
         /\ sent' = Append(sent,
                Call("send_message", hChat,
                     FormatLinkMessageHtml(hPost, config.links_base_url), <<>>, "post", ok))
         /\ HandleReturn(IF ok THEN "ok" ELSE "transport_err")
    /\ UNCHANGED << config, dbVars, alive, pollVars, pollHist, botVars, otherVars, hPost, hChat, gTodo,
                    gFiles, gFailed, ytdlp >>

\* handle_new_self_post: send_message
HandleSelfSend ==
    /\ alive /\ hPc = "dispatch"
    /\ hPost.post_type = "SelfText"
    /\ \E ok \in BOOLEAN :
         /\ sent' = Append(sent,
                Call("send_message", hChat,
                     FormatMediaCaptionHtml(hPost, config.links_base_url), <<>>, "post", ok))
         /\ HandleReturn(IF ok THEN "ok" ELSE "transport_err")
    /\ UNCHANGED << config, dbVars, alive, pollVars, pollHist, botVars, otherVars, hPost, hChat, gTodo,
                    gFiles, gFailed, ytdlp >>

\* handle_new_gallery_post / download_gallery: gallery_data or media_metadata
\* is None and the expect panics
HandleGalleryNoData ==
    /\ alive /\ hPc = "dispatch"
    /\ hPost.post_type = "Gallery"
    /\ ~hPost.gallery_data
    /\ HandleReturn("panic_gallery")
    /\ UNCHANGED << config, dbVars, alive, pollVars, pollHist, botVars, otherVars, hPost, hChat, gTodo,
                    gFiles, gFailed, sent, ytdlp >>

\* download_gallery: the loop over media_metadata starts with an empty map
HandleGalleryStart ==
    /\ alive /\ hPc = "dispatch"
    /\ hPost.post_type = "Gallery"
    /\ hPost.gallery_data
    /\ gTodo' \in MediaMetadataMaps
    /\ gFiles' = {}
    /\ gFailed' = {}
    /\ hPc' = "download"
    /\ UNCHANGED << config, dbVars, alive, pollVars, pollHist, botVars, otherVars, hPost, hChat,
                    hResult, sent, ytdlp >>

\* download_gallery: download_url_to_tmp succeeds for one entry, in the
\* iteration order of the HashMap
HandleGalleryDownload ==
    /\ alive /\ hPc = "download"
    /\ \E id \in gTodo :
         /\ gTodo' = gTodo \ {id}
         /\ gFiles' = gFiles \cup {id}
    /\ UNCHANGED << config, dbVars, alive, pollVars, pollHist, botVars, otherVars, hPc, hPost, hChat,
                    gFailed, hResult, sent, ytdlp >>

\* download_gallery: download_url_to_tmp fails for one entry and `?` returns
\* the error: the handler ends
HandleGalleryDownloadErr ==
    /\ alive /\ hPc = "download"
    /\ \E id \in gTodo : gFailed' = gFailed \cup {id}
    /\ HandleReturn("resolver_err")
    /\ UNCHANGED << config, dbVars, alive, pollVars, pollHist, botVars, otherVars, hPost, hChat, gTodo,
                    gFiles, sent, ytdlp >>

\* download_gallery: an entry has no source image ("Media metadata not
\* available") and `?` returns the error
HandleGalleryMetaErr ==
    /\ alive /\ hPc = "download"
    /\ gTodo # {}
    /\ HandleReturn("resolver_err")
    /\ UNCHANGED << config, dbVars, alive, pollVars, pollHist, botVars, otherVars, hPost, hChat, gTodo,
                    gFiles, gFailed, sent, ytdlp >>

\* handle_new_gallery_post: the media group is built from the downloaded files
\* and sent with send_media_group
HandleGallerySend ==
    /\ alive /\ hPc = "download"
    /\ gTodo = {}
    /\ \E ok \in BOOLEAN :
         /\ sent' = Append(sent,
                Call("send_media_group", hChat, <<>>,
                     MediaGroup(gFiles, FormatMediaCaptionHtml(hPost, config.links_base_url)),
                     None, ok))
         /\ IF ok THEN hPc' = "store" /\ hResult' = hResult
            ELSE HandleReturn("transport_err")
    /\ UNCHANGED << config, dbVars, alive, pollVars, pollHist, botVars, otherVars, hPost, hChat, gTodo,
                    gFiles, gFailed, ytdlp >>

\* handle_new_gallery_post: add_telegram_file for every message of the group
HandleGalleryStore ==
    /\ alive /\ hPc = "store"
    /\ LET group == sent[Len(sent)].media
       IN  \E t \in UploadTags :
             telegram_file' = StoreFiles(telegram_file, hPost.id, hChat, group, t, Len(group))
    /\ hPc' = "repost_msg"
    /\ UNCHANGED << config, post, subscription, chat, alive, pollVars, pollHist, botVars, otherVars,
                    hPost, hChat, gTodo, gFiles, gFailed, hResult, sent, ytdlp >>

\* handle_new_gallery_post: Database::open or one add_telegram_file fails and
\* `?` returns the error
HandleGalleryStoreErr ==
    /\ alive /\ hPc = "store"
    /\ LET group == sent[Len(sent)].media
       IN  \E t \in UploadTags, n \in 0..(Len(group) - 1) :
             telegram_file' = StoreFiles(telegram_file, hPost.id, hChat, group, t, n)
    /\ HandleReturn("files_err")
    /\ UNCHANGED << config, post, subscription, chat, alive, pollVars, pollHist, botVars, otherVars,
                    hPost, hChat, gTodo, gFiles, gFailed, sent, ytdlp >>

\* handle_new_gallery_post ending after the file handles are stored, without
\* the "To repost:" message
HandleGalleryNoRepostMsg ==
    /\ alive /\ hPc = "repost_msg"
    /\ HandleReturn("ok")
    /\ UNCHANGED << config, dbVars, alive, pollVars, pollHist, botVars, otherVars, hPost, hChat, gTodo,
                    gFiles, gFailed, sent, ytdlp >>

\* handle_new_gallery_post: send_message "To repost:" with the repost buttons
HandleGalleryRepostMsg ==
    /\ alive /\ hPc = "repost_msg"
    /\ \E ok \in BOOLEAN :
         /\ sent' = Append(sent,
                Call("send_message", hChat, << << "text", "To repost:" >> >>, <<>>,
                     "gallery", ok))
         /\ HandleReturn(IF ok THEN "ok" ELSE "repost_msg_err")
    /\ UNCHANGED << config, dbVars, alive, pollVars, pollHist, botVars, otherVars, hPost, hChat, gTodo,
                    gFiles, gFailed, ytdlp >>

\* process_post: handle_new_post is called with the post of the poll task
PollHandleStart ==
    /\ alive /\ pc = "deliver"
    /\ pc' = "handling"
    /\ pollAttempts' = [pollAttempts EXCEPT ![<<sub.chat_id, CurPost.id>>] = @ + 1]
    /\ hPc' = "start"
    /\ hPost' = CurPost
    /\ hChat' = sub.chat_id
    /\ gTodo' = {} /\ gFiles' = {} /\ gFailed' = {}
    /\ hResult' = None
    /\ sent' = <<>>
    /\ ytdlp' = 0
    /\ UNCHANGED << config, dbVars, alive, cycle, subs, subIdx, sub, posts, postIdx,
                    only_mark_seen, panicCause, botVars, otherVars, passLog, passCalls, outcome >>

\* process_post: handle_new_post has ended; its error is logged and dropped,
\* its panic unwinds the poll task
PollHandleEnd ==
    /\ alive /\ pc = "handling"
    /\ hPc = "done"
    /\ hPc' = "idle"
    /\ outcome' = hResult
    /\ passCalls' = passCalls + Len(sent)
    /\ IF hResult \in Panics
       THEN pc' = "panicked" /\ panicCause' = hResult
       ELSE pc' = "mark" /\ panicCause' = panicCause
    /\ UNCHANGED << config, dbVars, alive, cycle, subs, subIdx, sub, posts, postIdx,
                    only_mark_seen, botVars, otherVars, passLog, pollAttempts, hPost, hChat, gTodo,
                    gFiles, gFailed, hResult, sent, ytdlp >>

(* ---- the specifications ------------------------------------------------ *)

\* The poll task and the main function
PollNext ==
    \/ PollStartCycle
    \/ PollStartCycleErr
    \/ PollFetchErr
    \/ PollFetchDbErr
    \/ PollFetchOk
    \/ PollSubDone
    \/ PollCheckFiltered
    \/ PollCheckOpenErr
    \/ PollCheckReadErr
    \/ PollCheckSeen
    \/ PollCheckNew
    \/ PollProcessRecord
    \/ PollProcessRecordErr
    \/ PollDeliver
    \/ PollMark
    \/ PollMarkErr
    \/ MainTryJoin

\* The handlers of /sub and /unsub
RegistryNext ==
    \/ CmdSub
    \/ CmdSubRejected
    \/ CmdUnsub

\* The handler of /get
GetNext ==
    \/ CmdGetFetch
    \/ CmdGetFetchErr
    \/ GetItem
    \/ GetItemErr

\* The scheduler, with subscriptions coming and going
Next == PollNext \/ RegistryNext

Spec == Init /\ [][Next]_vars

\* The on-demand path, with subscriptions coming and going
NextGet == RegistryNext \/ GetNext

SpecGet == Init /\ [][NextGet]_vars
\* The file handles an earlier delivery of the post to the chat has left: none,
\* or those of a whole gallery, uploaded under unique ids that the new upload
\* will not get ("u0") or will get again
EarlierFiles(p, chat_id) ==
    IF p.post_type = "Gallery"
    THEN {<<>>} \cup { AddFiles(<<>>, p.id, chat_id, t, Len(GalleryItems)) :
                          t \in {"u0"} \cup UploadTags }
    ELSE {<<>>}

\* handle_new_post is called once, with a post of any type
InitHandle ==
    /\ config \in HandleConfigs
    /\ hPost \in HandlePosts
    /\ hChat \in Chats
    /\ subscription = <<>>
    /\ chat = {}
    /\ telegram_file \in EarlierFiles(hPost, hChat)
    /\ post = IF telegram_file = <<>> THEN {}
              ELSE RecordPost({}, hChat, hPost, NULL)
    /\ alive = TRUE
    /\ pc = "sleep"
    /\ cycle = 0
    /\ subs = <<>>
    /\ subIdx = 0
    /\ sub = NoSub
    /\ posts = <<>>
    /\ postIdx = 0
    /\ only_mark_seen = FALSE
    /\ panicCause = None
    /\ cmds = 0
    /\ getPc = "idle"
    /\ getChat = 0
    /\ getPosts = <<>>
    /\ passLog = <<>>
    /\ passCalls = 0
    /\ outcome = None
    /\ pollAttempts = [k \in Chats \X PostIds |-> 0]
    /\ getCount = [k \in Chats \X PostIds |-> 0]
    /\ hPc = "start"
    /\ gTodo = {}
    /\ gFiles = {}
    /\ gFailed = {}
    /\ hResult = None
    /\ sent = <<>>
    /\ ytdlp = 0
    /\ DispatchIdle
    /\ SignalIdle
    /\ UnitIdle
    /\ ConnIdle

\* The steps of handle_new_post for an Image or a Video
HandleMediaNext ==
    \/ HandleHinted
    \/ HandleImageDownload
    \/ HandleImageDownloadErr
    \/ HandleImageSend
    \/ HandleVideoDownload
    \/ HandleVideoSend

\* The steps of handle_new_post for the other post types
HandleOtherNext ==
    \/ HandleGetLink
    \/ HandleGetLinkPanic
    \/ HandleLinkSend
    \/ HandleSelfSend
    \/ HandleGalleryNoData
    \/ HandleGalleryStart
    \/ HandleGalleryDownload
    \/ HandleGalleryDownloadErr
    \/ HandleGalleryMetaErr
    \/ HandleGallerySend
    \/ HandleGalleryStore
    \/ HandleGalleryStoreErr
    \/ HandleGalleryRepostMsg

NextHandle == HandleMediaNext \/ HandleOtherNext

SpecHandle == InitHandle /\ [][NextHandle]_vars
\* The configurations of the end-to-end scenario
ScenarioConfigs ==
    { [skip_initial_send |-> s, default_limit |-> NoLimit, default_time |-> None,
       default_filter |-> None, links_base_url |-> b, authorized_user_ids |-> {1001}] :
         s \in BOOLEAN, b \in {None, "https://base"} }

\* One subscription (42, "aww", limit 1, time week, no filter), an empty ledger
InitScenario ==
    /\ config \in ScenarioConfigs
    /\ post = {}
    /\ subscription = << [chat_id |-> 42, subreddit |-> "aww", limit |-> <<1>>,
                          time |-> "week", filter |-> None] >>
    /\ chat = { [chat_id |-> 42, repost_channel_id |-> NULL] }
    /\ telegram_file = <<>>
    /\ alive = TRUE
    /\ pc = "sleep"
    /\ cycle = 0
    /\ subs = <<>>
    /\ subIdx = 0
    /\ sub = NoSub
    /\ posts = <<>>
    /\ postIdx = 0
    /\ only_mark_seen = FALSE
    /\ panicCause = None
    /\ cmds = 0
    /\ getPc = "idle"
    /\ getChat = 0
    /\ getPosts = <<>>
    /\ passLog = <<>>
    /\ passCalls = 0
    /\ outcome = None
    /\ pollAttempts = [k \in Chats \X PostIds |-> 0]
    /\ getCount = [k \in Chats \X PostIds |-> 0]
    /\ HandleIdle
    /\ UnitIdle
    /\ ConnIdle

\* The steps the poll task can take for a subscription without filter, with
\* handle_new_post taken call by call
ScenarioPollNext ==
    \/ PollStartCycle
    \/ PollStartCycleErr
    \/ PollFetchErr
    \/ PollFetchDbErr
    \/ PollFetchOk
    \/ PollSubDone
    \/ PollCheckOpenErr
    \/ PollCheckReadErr
    \/ PollCheckSeen
    \/ PollCheckNew
    \/ PollProcessRecord
    \/ PollProcessRecordErr
    \/ PollHandleStart
    \/ PollHandleEnd
    \/ PollMark
    \/ PollMarkErr
    \/ MainTryJoin

NextScenario == ScenarioPollNext \/ HandleMediaNext

SpecScenario == InitScenario /\ [][NextScenario]_vars
(* ---- bot.rs: the dispatcher and the handlers behind it ----------------- *)

\* The users that write to the bot: 1001 is authorised by Configs, 666 is not
UserIds == {1001, 666}

\* Message::from: absent (<<>>) for a channel post
Senders == {<<>>} \cup { << u >> : u \in UserIds }

\* Command: the commands filter_command parses.  What Command::Get does behind
\* the dispatcher is followed step by step by CmdGetFetch and GetItem.
Commands ==
    {"help", "sub", "unsub", "listsubs", "get", "registerchannel", "reposttochannel"}

\* The channels a chat can register
Channels == {-100}

\* The updates the dispatcher can receive: a message (a command or any other
\* text) or a callback query, which always has a sender
Updates ==
    [kind : {"message"}, from : Senders, chat_id : Chats, command : Commands \cup {"text"}]
      \cup
    [kind : {"callback_query"}, from : { << u >> : u \in UserIds }, chat_id : Chats,
     command : {"callback_query"}]

\* ButtonCallbackData
CallbackData == [post_id : {"abc", "gal"}, copy_caption : BOOLEAN, is_gallery : BOOLEAN]

\* The message filter with unwrap_or(true): a message with no sender passes
MessageFilterAbsentPasses(u) ==
    IF u.from = <<>> THEN TRUE ELSE u.from[1] \in config.authorized_user_ids

\* MyBot::new: the filter of the message branch
MessageFilter(u) ==
    IF u.from = <<>> THEN FALSE ELSE u.from[1] \in config.authorized_user_ids

\* MyBot::new: the filter of the callback query branch
CallbackFilter(u) == u.from[1] \in config.authorized_user_ids

\* MyBot::new: the endpoint the handler tree gives the update to
Endpoint(u) ==
    CASE u.kind = "message" /\ MessageFilter(u) /\ u.command \in Commands -> "handle_command"
      [] u.kind = "callback_query" /\ CallbackFilter(u) -> "callback_handler"
      [] OTHER -> "default_handler"

\* Database::set_repost_channel
SetRepostChannel(tbl, chat_id, repost_channel_id) ==
    { IF r.chat_id = chat_id THEN [r EXCEPT !.repost_channel_id = << repost_channel_id >>]
      ELSE r : r \in EnsureChatExists(tbl, chat_id) }

\* Database::get_repost_channel: no row is Ok(None); the column is read as an
\* i64, so a row whose repost_channel_id is null is an error
GetRepostChannel(tbl, chat_id) ==
    IF ~(\E r \in tbl : r.chat_id = chat_id) THEN [ok |-> TRUE, value |-> NULL]
    ELSE LET r == CHOOSE r \in tbl : r.chat_id = chat_id
         IN  IF r.repost_channel_id = NULL THEN [ok |-> FALSE, value |-> NULL]
             ELSE [ok |-> TRUE, value |-> r.repost_channel_id]

\* get_post_title without the chat_id test: the title of the post in any chat
GetPostTitleAnyChat(tbl, chat_id, post_id) ==
    IF ~(\E r \in tbl : r.post_id = post_id)
    THEN [ok |-> FALSE, value |-> <<>>]
    ELSE [ok |-> TRUE, value |-> << (CHOOSE r \in tbl : r.post_id = post_id).post_title >>]

\* Database::get_post_title: no row is an error
GetPostTitle(tbl, chat_id, post_id) ==
    IF ~(\E r \in tbl : r.post_id = post_id /\ r.chat_id = chat_id)
    THEN [ok |-> FALSE, value |-> <<>>]
    ELSE [ok |-> TRUE,
          value |-> << (CHOOSE r \in tbl : r.post_id = post_id /\ r.chat_id = chat_id).post_title >>]

\* Database::get_telegram_files_for_post: the file ids in insertion order
GetTelegramFilesForPost(tbl, post_id, chat_id) ==
    LET rows == SelectSeq(tbl, LAMBDA r : r.post_id = post_id /\ r.chat_id = chat_id)
    IN  [i \in 1..Len(rows) |-> rows[i].telegram_file_id]

\* Database::get_subscriptions_for_chat
GetSubscriptionsForChat(reg, chat_id) ==
    LET rows == SelectSeq(reg, LAMBDA r : r.chat_id = chat_id)
    IN  [i \in 1..Len(rows) |-> SubscriptionFromRow(rows[i])]

\* handle_repost: what it returns, what it tells the chat and the call it
\* makes to the repost channel
HandleRepost(chat_id, caption) ==
    LET ch == GetRepostChannel(chat, chat_id)
    IN  CASE ~ch.ok -> [ok |-> FALSE, reply |-> <<>>, calls |-> <<>>]
          [] ch.ok /\ ch.value = NULL ->
                [ok |-> TRUE, reply |-> << "Repost channel not registered" >>, calls |-> <<>>]
          [] OTHER ->
                [ok |-> TRUE, reply |-> <<>>,
                 calls |-> << [method |-> "copy_message", chat_id |-> ch.value[1],
                               from_chat_id |-> chat_id, caption |-> caption,
                               media |-> <<>>] >>]

\* handle_repost_gallery: the same with a media group built from the file ids
HandleRepostGallery(chat_id, gallery_file_ids, post_caption) ==
    LET ch == GetRepostChannel(chat, chat_id)
    IN  CASE ~ch.ok -> [ok |-> FALSE, reply |-> <<>>, calls |-> <<>>]
          [] ch.ok /\ ch.value = NULL ->
                [ok |-> TRUE, reply |-> << "Repost channel not registered" >>, calls |-> <<>>]
          [] OTHER ->
                [ok |-> TRUE, reply |-> <<>>,
                 calls |-> << [method |-> "send_media_group", chat_id |-> ch.value[1],
                               from_chat_id |-> chat_id, caption |-> post_caption,
                               media |-> gallery_file_ids] >>]

\* The variables no handler behind the dispatcher writes
botFrame == << config, handleVars, unitVars, sigVars, ledgerOp, alive, pollVars, pollHist, getPc, getChat, getPosts, getCount >>

\* The dispatcher gives update u to an endpoint, which answers
Dispatched(u, data, endpoint, answer, calls) ==
    /\ Endpoint(u) = endpoint
    /\ inbound' = << u, data >>
    /\ handledBy' = endpoint
    /\ reply' = answer
    /\ repostCalls' = calls
    /\ cmds' = cmds + 1

\* handle_command: an error of the inner handle is answered "Something went wrong"
CommandReply(r) == IF r.ok THEN r.reply ELSE << "Something went wrong" >>

\* The default handler: the update passed no branch and is only logged
BotUnhandled ==
    /\ alive /\ cmds < MaxCmds
    /\ \E u \in Updates : Dispatched(u, <<>>, "default_handler", <<>>, <<>>)
    /\ UNCHANGED << botFrame, dbVars >>

\* handle_command, Command::Help
BotHelp ==
    /\ alive /\ cmds < MaxCmds
    /\ \E u \in Updates :
         /\ u.command = "help"
         /\ Dispatched(u, <<>>, "handle_command", << "descriptions" >>, <<>>)
    /\ UNCHANGED << botFrame, dbVars >>

\* handle_command, Command::Sub: the subreddit exists
BotSub ==
    /\ alive /\ cmds < MaxCmds
    /\ \E u \in Updates, args \in SubArgs :
         /\ u.command = "sub"
         /\ Dispatched(u, args, "handle_command", << "Subscribed to r/", args.subreddit >>, <<>>)
         /\ chat' = EnsureChatExists(chat, u.chat_id)
         /\ subscription' = Subscribe(subscription, u.chat_id, args)
    /\ UNCHANGED << botFrame, post, telegram_file >>

\* handle_command, Command::Sub: get_subreddit_about answers NoSuchSubreddit,
\* or fails
BotSubRejected ==
    /\ alive /\ cmds < MaxCmds
    /\ \E u \in Updates, answer \in {"No such subreddit", "Something went wrong"} :
         /\ u.command = "sub"
         /\ Dispatched(u, <<>>, "handle_command", << answer >>, <<>>)
    /\ UNCHANGED << botFrame, dbVars >>

\* handle_command, Command::Unsub
BotUnsub ==
    /\ alive /\ cmds < MaxCmds
    /\ \E u \in Updates, name \in UnsubInputs :
         /\ u.command = "unsub"
         /\ LET gone == UnsubscribeMatches(subscription, u.chat_id, name)
            IN  Dispatched(u, name, "handle_command",
                           IF Len(gone) = 0 THEN << "Error: Not subscribed to r/", name >>
                           ELSE << "Unsubscribed from r/", gone[1].subreddit >>, <<>>)
         /\ subscription' = Unsubscribe(subscription, u.chat_id, name)
    /\ UNCHANGED << botFrame, post, chat, telegram_file >>

\* handle_command, Command::ListSubs
BotListSubs ==
    /\ alive /\ cmds < MaxCmds
    /\ \E u \in Updates :
         /\ u.command = "listsubs"
         /\ LET own == GetSubscriptionsForChat(subscription, u.chat_id)
            IN  Dispatched(u, <<>>, "handle_command",
                           << "subscriptions" >> \o [i \in 1..Len(own) |-> own[i].subreddit],
                           <<>>)
    /\ UNCHANGED << botFrame, dbVars >>

\* handle_command, Command::RegisterChannel
BotRegisterChannel ==
    /\ alive /\ cmds < MaxCmds
    /\ \E u \in Updates, channel_id \in Channels :
         /\ u.command = "registerchannel"
         /\ Dispatched(u, channel_id, "handle_command", << "Repost channel added successfully" >>,
                       <<>>)
         /\ chat' = SetRepostChannel(chat, u.chat_id, channel_id)
    /\ UNCHANGED << botFrame, post, subscription, telegram_file >>

\* handle_command, Command::RepostToChannel
BotRepostToChannel ==
    /\ alive /\ cmds < MaxCmds
    /\ \E u \in Updates, description \in {"", "look"} :
         /\ u.command = "reposttochannel"
         /\ LET r == HandleRepost(u.chat_id, description)
            IN  Dispatched(u, description, "handle_command", CommandReply(r), r.calls)
    /\ UNCHANGED << botFrame, dbVars >>

\* callback_handler: an error is returned to the dispatcher, whose error
\* handler logs it
BotCallback ==
    /\ alive /\ cmds < MaxCmds
    /\ \E u \in Updates, data \in CallbackData :
         /\ u.command = "callback_query"
         /\ LET title == GetPostTitle(post, u.chat_id, data.post_id)
                caption == IF data.copy_caption /\ title.ok THEN title.value[1] ELSE ""
                r == CASE data.copy_caption /\ ~title.ok ->
                            [ok |-> FALSE, reply |-> <<>>, calls |-> <<>>]
                       [] data.is_gallery ->
                            HandleRepostGallery(u.chat_id,
                                GetTelegramFilesForPost(telegram_file, data.post_id, u.chat_id),
                                caption)
                       [] OTHER -> HandleRepost(u.chat_id, caption)
            IN  Dispatched(u, data, "callback_handler", r.reply, r.calls)
    /\ UNCHANGED << botFrame, dbVars >>

\* The databases the dispatcher can find: empty; chat 42 subscribed, items
\* delivered; the same with a repost channel registered; chats 42 and 7 both
\* with a channel of their own, the gallery delivered to chat 7 only
BotDatabases ==
    LET reg == << [chat_id |-> 42, subreddit |-> "aww", limit |-> <<2>>, time |-> "week",
                   filter |-> None] >>
        row(id, c, f) == [post_id |-> id, chat_id |-> c, subreddit |-> f, seen_at |-> <<"t">>,
                          post_title |-> IF id = "abc" THEN "T-abc" ELSE "T-gal"]
        ledger == { row("abc", 42, "aww"), row("gal", 42, "pics") }
        file(c, unique_id) == [post_id |-> "gal", chat_id |-> c,
                               telegram_file_id |-> << "m1", unique_id >>,
                               telegram_file_unique_id |-> << "m1", unique_id >>]
    IN  { [subscription |-> <<>>, chat |-> {}, post |-> {}, telegram_file |-> <<>>],
          [subscription |-> reg, chat |-> {[chat_id |-> 42, repost_channel_id |-> NULL]},
           post |-> ledger, telegram_file |-> << file(42, "f") >>],
          [subscription |-> reg, chat |-> {[chat_id |-> 42, repost_channel_id |-> << -100 >>]},
           post |-> ledger, telegram_file |-> << file(42, "f") >>],
          [subscription |-> reg,
           chat |-> {[chat_id |-> 42, repost_channel_id |-> << -100 >>],
                     [chat_id |-> 7, repost_channel_id |-> << -200 >>]},
           post |-> { row("abc", 42, "aww"), row("abc", 7, "pics"), row("gal", 7, "pics") },
           telegram_file |-> << file(7, "g") >>] }

InitBot ==
    /\ config \in Configs
    /\ \E d \in BotDatabases :
         /\ subscription = d.subscription
         /\ chat = d.chat
         /\ post = d.post
         /\ telegram_file = d.telegram_file
    /\ alive = TRUE
    /\ pc = "sleep"
    /\ cycle = 0
    /\ subs = <<>>
    /\ subIdx = 0
    /\ sub = NoSub
    /\ posts = <<>>
    /\ postIdx = 0
    /\ only_mark_seen = FALSE
    /\ panicCause = None
    /\ cmds = 0
    /\ getPc = "idle"
    /\ getChat = 0
    /\ getPosts = <<>>
    /\ passLog = <<>>
    /\ passCalls = 0
    /\ outcome = None
    /\ pollAttempts = [k \in Chats \X PostIds |-> 0]
    /\ getCount = [k \in Chats \X PostIds |-> 0]
    /\ HandleIdle
    /\ UnitIdle
    /\ ConnIdle

NextBot ==
    \/ BotUnhandled
    \/ BotHelp
    \/ BotSub
    \/ BotSubRejected
    \/ BotUnsub
    \/ BotListSubs
    \/ BotRegisterChannel
    \/ BotRepostToChannel
    \/ BotCallback

SpecBot == InitBot /\ [][NextBot]_vars
(* ---- main.rs: the shutdown signal -------------------------------------- *)

\* The task of the poll loop has ended, and with it the receiver shutdown_rx
LoopEnded == pc \in {"stopped", "panicked"}

\* The signal thread: a signal arrives; shutdown.swap(true) and
\* bot_shutdown_token.shutdown()
SignalSwap ==
    /\ alive /\ sigPc = "wait"
    /\ shutdown' = TRUE
    /\ sigPc' = "send"
    /\ UNCHANGED << config, handleVars, unitVars, dispatchVars, ledgerOp, dbVars, alive, pollVars, pollHist, botVars,
                    shutdown_rx >>

\* The signal thread: shutdown_tx.send(()) reaches the receiver of the loop
SignalSend ==
    /\ alive /\ sigPc = "send"
    /\ ~LoopEnded
    /\ shutdown_rx' = TRUE
    /\ sigPc' = "wait"
    /\ UNCHANGED << config, handleVars, unitVars, dispatchVars, ledgerOp, dbVars, alive, pollVars, pollHist, botVars,
                    shutdown >>

\* The signal thread: shutdown_tx.send(()) finds no receiver and the process
\* exits
SignalSendExit ==
    /\ alive /\ sigPc = "send"
    /\ LoopEnded
    /\ alive' = FALSE
    /\ UNCHANGED << config, handleVars, unitVars, dispatchVars, ledgerOp, dbVars, pollVars, pollHist, botVars,
                    sigVars >>

\* The select of the loop that never polls shutdown_rx
PollRecvNever ==
    /\ FALSE
    /\ UNCHANGED vars

\* The loop of sub_check_loop_handle, in the select after a cycle:
\* shutdown_rx.recv() completes before the sleep and the loop breaks
PollRecv ==
    /\ alive /\ pc = "sleep" /\ cycle > 0
    /\ shutdown_rx
    /\ pc' = "stopped"
    /\ shutdown_rx' = FALSE
    /\ UNCHANGED << config, handleVars, unitVars, dispatchVars, ledgerOp, dbVars, alive, cycle, subs, subIdx, sub,
                    posts, postIdx, only_mark_seen, panicCause, botVars, pollHist, shutdown,
                    sigPc >>

\* The loop of sub_check_loop_handle, at the while: the sleep is over, or the
\* loop is entered, and shutdown.load is true
PollLoadShutdown ==
    /\ alive /\ pc = "sleep"
    /\ shutdown
    /\ pc' = "stopped"
    /\ UNCHANGED << config, handleVars, unitVars, dispatchVars, ledgerOp, dbVars, alive, cycle, subs, subIdx, sub,
                    posts, postIdx, only_mark_seen, panicCause, botVars, pollHist, sigVars >>

\* main: try_join! returns when the loop and the dispatcher have ended
MainReturn ==
    /\ alive /\ pc = "stopped"
    /\ alive' = FALSE
    /\ UNCHANGED << config, auxVars, dbVars, pollVars, botVars, pollHist >>

\* The positions of the poll loop, the signal thread and the process
progress == << alive, pc, cycle, subIdx, postIdx, shutdown, shutdown_rx, sigPc >>

SignalNext == SignalSwap \/ SignalSend \/ SignalSendExit

StopNext == PollRecv \/ PollLoadShutdown \/ MainReturn

NextShutdown == PollNext \/ SignalNext \/ StopNext

\* The tasks of the runtime and the signal thread keep running: a call that
\* was started returns, and a signal that was received is forwarded
SpecShutdown ==
    /\ Init
    /\ [][NextShutdown]_vars
    /\ WF_progress(PollNext)
    /\ WF_progress(StopNext)
    /\ WF_progress(SignalSend \/ SignalSendExit)
(* ---- the process is killed and started again --------------------------- *)

\* The process is killed while handle_new_post, called by process_post, runs:
\* the delivery has started and its transport call has not returned
CrashMidDelivery ==
    /\ alive /\ pc = "deliver"
    /\ alive' = FALSE
    /\ pc' = "killed"
    /\ panicCause' = "killed_mid_delivery"
    /\ pollAttempts' = [pollAttempts EXCEPT ![<< sub.chat_id, CurPost.id >>] = @ + 1]
    /\ UNCHANGED << config, auxVars, dbVars, cycle, subs, subIdx, sub, posts, postIdx,
                    only_mark_seen, botVars, passLog, passCalls, outcome >>

\* The process is killed at any other point of the poll task
Crash ==
    /\ alive /\ pc \notin {"deliver", "panicked"}
    /\ alive' = FALSE
    /\ pc' = "killed"
    /\ panicCause' = "killed"
    /\ UNCHANGED << config, auxVars, dbVars, cycle, subs, subIdx, sub, posts, postIdx,
                    only_mark_seen, botVars, pollHist >>

\* main runs again on the same database file: the poll task starts with its
\* first cycle; what the tables hold is all that is left of the old process
Restart ==
    /\ ~alive
    /\ alive' = TRUE
    /\ pc' = "sleep"
    /\ subs' = <<>> /\ subIdx' = 0 /\ sub' = NoSub
    /\ posts' = <<>> /\ postIdx' = 0
    /\ only_mark_seen' = FALSE
    /\ passLog' = <<>> /\ passCalls' = 0 /\ outcome' = None
    /\ UNCHANGED << config, auxVars, dbVars, cycle, panicCause, botVars, pollAttempts >>

NextCrash == PollNext \/ CrashMidDelivery \/ Crash \/ Restart

SpecCrash == Init /\ [][NextCrash]_vars
(* ---- db.rs: the writes to table post, one statement at a time ---------- *)

\* The posts record_post can be called with: the id "abc" with another feed
\* and another title, and a second id
LedgerPosts ==
    { Image("aww"), [Image("pics") EXCEPT !.title = "T-abc (edited)"], Video("aww") }

\* The times chrono::Utc::now() returns
LedgerTimes == { << "t1" >>, << "t2" >> }

\* What table post holds for the post in chat c: no row, a pending row or a
\* row with a timestamp
RowState(tbl, c, p) ==
    IF IsPostSeen(tbl, c, p) THEN "seen"
    ELSE IF \E r \in tbl : r.post_id = p.id /\ r.chat_id = c THEN "pending"
    ELSE "absent"

\* process_post and check_post_newness: record_post_seen_with_current_time
LedgerMarkSeen ==
    /\ alive
    /\ \E c \in Chats, p \in LedgerPosts, now \in LedgerTimes :
         /\ post' = RecordPostSeenWithCurrentTime(post, c, p, now)
         /\ ledgerOp' = << "mark_seen", RowState(post, c, p) >>
    /\ UNCHANGED << config, handleVars, unitVars, dispatchVars, sigVars, subscription, chat,
                    telegram_file, alive, pollVars, pollHist, botVars >>

\* handle_get_command: record_post with no time
LedgerRecordPending ==
    /\ alive
    /\ \E c \in Chats, p \in LedgerPosts :
         /\ post' = RecordPost(post, c, p, NULL)
         /\ ledgerOp' = << "record_pending", RowState(post, c, p) >>
    /\ UNCHANGED << config, handleVars, unitVars, dispatchVars, sigVars, subscription, chat,
                    telegram_file, alive, pollVars, pollHist, botVars >>

NextLedger == LedgerMarkSeen \/ LedgerRecordPending \/ CmdSub \/ CmdUnsub

\* The database of one chat with one subscription and an empty table post
InitLedger ==
    /\ Init
    /\ config.skip_initial_send
    /\ Len(subscription) = 1

SpecLedger == InitLedger /\ [][NextLedger]_vars
(* ---- reddit: the classifier of a fetched item -------------------------- *)

\* The program at rest: nothing subscribed, no task started
InitUnit ==
    /\ config = [skip_initial_send |-> FALSE, default_limit |-> NoLimit,
                 default_time |-> None, default_filter |-> None,
                 links_base_url |-> None, authorized_user_ids |-> {1001}]
    /\ post = {}
    /\ subscription = <<>>
    /\ chat = {}
    /\ telegram_file = <<>>
    /\ alive = TRUE
    /\ pc = "sleep"
    /\ cycle = 0
    /\ subs = <<>>
    /\ subIdx = 0
    /\ sub = NoSub
    /\ posts = <<>>
    /\ postIdx = 0
    /\ only_mark_seen = FALSE
    /\ panicCause = None
    /\ cmds = 0
    /\ getPc = "idle"
    /\ getChat = 0
    /\ getPosts = <<>>
    /\ passLog = <<>>
    /\ passCalls = 0
    /\ outcome = None
    /\ pollAttempts = [k \in Chats \X PostIds |-> 0]
    /\ getCount = [k \in Chats \X PostIds |-> 0]
    /\ HandleIdle

\* The values of the type hint of a listing entry; <<>> when the field is absent
PostHints ==
    { <<>>, <<"image">>, <<"video">>, <<"rich:video">>, <<"hosted:video">>,
      <<"link">>, <<"self">> }

\* The fields of a listing entry the classifier reads; the gallery flag is optional
RawPosts ==
    [is_gallery : {<<>>, <<FALSE>>, <<TRUE>>}, is_self : BOOLEAN, is_video : BOOLEAN,
     post_hint : PostHints]

\* The classifier with the video flag tested before the self-post flag
ClassifyVideoFirst(raw) ==
    CASE raw.is_gallery = <<TRUE>> -> "Gallery"
      [] raw.is_video \/ raw.post_hint \in {<<"video">>, <<"rich:video">>} -> "Video"
      [] raw.is_self -> "SelfText"
      [] raw.post_hint = <<"image">> -> "Image"
      [] raw.post_hint = <<>> -> "Unknown"
      [] OTHER -> "Link"

\* The kind given to a listing entry: the first of the rules that applies
Classify(raw) ==
    IF raw.is_gallery = <<TRUE>> THEN "Gallery"
    ELSE IF raw.is_self THEN "SelfText"
    ELSE IF raw.is_video \/ raw.post_hint \in {<<"video">>, <<"rich:video">>} THEN "Video"
    ELSE IF raw.post_hint = <<"image">> THEN "Image"
    ELSE IF raw.post_hint = <<>> THEN "Unknown"
    ELSE "Link"

\* A listing entry is deserialised
ClassifyCall ==
    /\ input \in RawPosts
    /\ output = <<>>
    /\ output' = << Classify(input) >>
    /\ UNCHANGED << config, dbVars, alive, pollVars, pollHist, botVars, handleVars,
                    dispatchVars, sigVars, ledgerOp, input, connVars >>

InitClassify ==
    /\ InitUnit
    /\ ConnIdle
    /\ input \in RawPosts
    /\ output = <<>>

SpecClassify == InitClassify /\ [][ClassifyCall]_vars

(* ---- bot.rs: parse_subscribe_message ----------------------------------- *)

\* The longest input, in whitespace-delimited tokens
MaxTokens == 3

\* A token is a sequence of pieces: a key with its "=", a word of letters, a
\* run of digits, the character "-", or one of the texts "r/" and "/r/"
Keys == {"limit=", "time=", "filter="}
WordPieces == {"pics", "week", "video", "bogus", "end", "5"}
DigitPieces == {"5"}

\* The tokens the inputs are made of
Tokens ==
    { << "pics" >>, << "r/", "pics" >>, << "/r/", "pics" >>,
      << "limit=", "5" >>, << "limit=", "bogus" >>,
      << "time=", "week" >>, << "time=", "bogus" >>, << "time=", "week", "-", "end" >>,
      << "time=" >>,
      << "filter=", "video" >>, << "filter=", "bogus" >> }

\* The arguments of /sub and /get: the tokens after the command, in order
Inputs == UNION { [1..n -> Tokens] : n \in 0..MaxTokens }

\* String::replace("/r/", "").replace("r/", "") on the first token
StripPrefixes(tok) == SelectSeq(tok, LAMBDA piece : piece \notin {"/r/", "r/"})

\* The longest run of pieces of the set allowed at the start of the sequence w
RECURSIVE Run(_, _)
Run(w, allowed) ==
    IF w # <<>> /\ Head(w) \in allowed THEN << Head(w) >> \o Run(Tail(w), allowed)
    ELSE <<>>

\* Regex \bkey=(class+)\b on the rest of the input: the capture of the first
\* match, <<>> for no match. A key matches at the start of a token; the capture
\* is the run of pieces of the class and must end at a word boundary
RECURSIVE Captures(_, _, _)
Captures(rest, key, class) ==
    IF rest = <<>> THEN <<>>
    ELSE LET tok == Head(rest)
             cap == IF Head(tok) = key THEN Run(Tail(tok), class) ELSE <<>>
             atBoundary == Len(tok) = 1 + Len(cap) \/ tok[2 + Len(cap)] \notin WordPieces
         IN  IF cap # <<>> /\ atBoundary THEN << cap >>
             ELSE Captures(Tail(rest), key, class)

\* str::parse::<u32>().ok() of the captured digits
ParseLimit(cap) == IF cap = << << "5" >> >> THEN << 5 >> ELSE NoLimit

\* str::parse::<TopPostsTimePeriod>() of a captured word: <<>> is Err
ParseTime(word) == IF word = << "week" >> THEN << "Week" >> ELSE <<>>

\* str::parse::<PostType>() of a captured word: <<>> is Err
ParseFilter(word) == IF word = << "video" >> THEN << "Video" >> ELSE <<>>

\* Result<(SubscriptionArgs,), ParseError>
ParseOk(a) == [kind |-> "Ok", args |-> a]
ParseErr(e) == [kind |-> e, args |-> None]

\* parse_subscribe_message
ParseSubscribeMessage(in) ==
    IF in = <<>> THEN ParseErr("Custom")
    ELSE LET rest == Tail(in)
             t == Captures(rest, "time=", WordPieces)
             f == Captures(rest, "filter=", WordPieces)
         IN  IF t # <<>> /\ ParseTime(t[1]) = <<>> THEN ParseErr("IncorrectFormat")
             ELSE IF f # <<>> /\ ParseFilter(f[1]) = <<>> THEN ParseErr("IncorrectFormat")
             ELSE ParseOk([subreddit |-> StripPrefixes(Head(in)),
                           limit |-> ParseLimit(Captures(rest, "limit=", DigitPieces)),
                           time |-> IF t = <<>> THEN None ELSE ParseTime(t[1])[1],
                           filter |-> IF f = <<>> THEN None ELSE ParseFilter(f[1])[1]])

\* A /sub or /get command arrives and its arguments are parsed
ParseCall ==
    /\ input \in Inputs
    /\ output = <<>>
    /\ output' = << ParseSubscribeMessage(input) >>
    /\ UNCHANGED << config, dbVars, alive, pollVars, pollHist, botVars, handleVars,
                    dispatchVars, sigVars, ledgerOp, input, connVars >>

InitParse ==
    /\ InitUnit
    /\ ConnIdle
    /\ input \in Inputs
    /\ output = <<>>

SpecParse == InitParse /\ [][ParseCall]_vars

(* ---- db.rs: the connections of the tasks ------------------------------- *)

\* The calls of Database::open the model follows
MaxOpens == 3

\* The posts the two tasks work on
ConnPosts == { Image("aww"), Video("aww") }

\* The positions at which a task holds the Mutex of its connection
InStatement == {"check", "mark", "record"}

connFrame ==
    << config, subscription, chat, telegram_file, alive, pollVars, pollHist, botVars,
       handleVars, dispatchVars, sigVars, ledgerOp, input, output >>

\* check_post_newness / handle_command: db::Database::open(config) makes a new
\* Connection with a Mutex of its own
DbOpen ==
    /\ opened < MaxOpens
    /\ \E t \in Tasks, c \in Chats, p \in ConnPosts :
         /\ dbTask[t].pc = "idle"
         /\ dbTask' = [dbTask EXCEPT ![t] =
                         [pc |-> "open", handle |-> opened + 1, chat_id |-> c, item |-> p,
                          met |-> None]]
    /\ opened' = opened + 1
    /\ UNCHANGED << connFrame, post, locked >>

\* self.conn.lock(): the task takes the Mutex of its own connection
DbLock ==
    /\ \E t \in Tasks :
         /\ dbTask[t].pc \in {"open", "checked"}
         /\ dbTask[t].handle \notin locked
         /\ locked' = locked \cup { dbTask[t].handle }
         /\ dbTask' = [dbTask EXCEPT ![t].pc =
                         IF t = "get" THEN "record"
                         ELSE IF dbTask[t].pc = "open" THEN "check" ELSE "mark"]
    /\ UNCHANGED << connFrame, post, opened >>

\* check_post_newness: is_post_seen; a seen post ends the function and the
\* connection is dropped
DbIsPostSeen ==
    /\ dbTask["poll"].pc = "check"
    /\ locked' = locked \ { dbTask["poll"].handle }
    /\ dbTask' = [dbTask EXCEPT !["poll"] =
                    IF IsPostSeen(post, dbTask["poll"].chat_id, dbTask["poll"].item) THEN NoConn
                    ELSE [@ EXCEPT !.pc = "checked",
                                   !.met = RowState(post, dbTask["poll"].chat_id, dbTask["poll"].item)]]
    /\ UNCHANGED << connFrame, post, opened >>

\* process_post / check_post_newness: record_post_seen_with_current_time
DbMarkSeen ==
    /\ dbTask["poll"].pc = "mark"
    /\ post' = RecordPostSeenWithCurrentTime(post, dbTask["poll"].chat_id, dbTask["poll"].item, Now)
    /\ locked' = locked \ { dbTask["poll"].handle }
    /\ dbTask' = [dbTask EXCEPT !["poll"] = NoConn]
    /\ UNCHANGED << connFrame, opened >>

\* handle_get_command: record_post(chat_id, &post, None)
DbRecordPost ==
    /\ dbTask["get"].pc = "record"
    /\ post' = RecordPost(post, dbTask["get"].chat_id, dbTask["get"].item, NULL)
    /\ locked' = locked \ { dbTask["get"].handle }
    /\ dbTask' = [dbTask EXCEPT !["get"] = NoConn]
    /\ UNCHANGED << connFrame, opened >>

NextConn == DbOpen \/ DbLock \/ DbIsPostSeen \/ DbMarkSeen \/ DbRecordPost

InitConn ==
    /\ InitUnit
    /\ UnitIdle
    /\ ConnIdle

SpecConn == InitConn /\ [][NextConn]_vars

(* ---- handle_post.rs: the poll task meets a post of unknown type -------- *)

\* One subscription (42, "bestof", limit 1), whose listing holds a Link or an
\* Unknown post, and an empty ledger
InitFallback ==
    /\ config \in ScenarioConfigs
    /\ post = {}
    /\ subscription = << [chat_id |-> 42, subreddit |-> "bestof", limit |-> <<1>>,
                          time |-> None, filter |-> None] >>
    /\ chat = { [chat_id |-> 42, repost_channel_id |-> NULL] }
    /\ telegram_file = <<>>
    /\ alive = TRUE
    /\ pc = "sleep"
    /\ cycle = 0
    /\ subs = <<>>
    /\ subIdx = 0
    /\ sub = NoSub
    /\ posts = <<>>
    /\ postIdx = 0
    /\ only_mark_seen = FALSE
    /\ panicCause = None
    /\ cmds = 0
    /\ getPc = "idle"
    /\ getChat = 0
    /\ getPosts = <<>>
    /\ passLog = <<>>
    /\ passCalls = 0
    /\ outcome = None
    /\ pollAttempts = [k \in Chats \X PostIds |-> 0]
    /\ getCount = [k \in Chats \X PostIds |-> 0]
    /\ HandleIdle
    /\ UnitIdle
    /\ ConnIdle

NextFallback ==
    \/ ScenarioPollNext
    \/ HandleHinted
    \/ HandleGetLink
    \/ HandleGetLinkPanic
    \/ HandleLinkSend

SpecFallback == InitFallback /\ [][NextFallback]_vars

(* ---- the claims ------------------------------------------------------- *)

\* The rows of the ledger of chat c and feed f that are marked seen
SeenFor(c, f) == { r \in post : r.chat_id = c /\ r.subreddit = f /\ r.seen_at # NULL }

\* The ledger has a row, pending or seen, for the post id in chat c
HasRecord(tbl, c, id) == \E r \in tbl : r.post_id = id /\ r.chat_id = c

\* The ways handle_new_post fails without panicking
Failures == {"resolver_err", "transport_err", "files_err", "repost_msg_err"}

\* The failures of a transport send call
TransportFailures == {"transport_err", "repost_msg_err"}

\* C1: over any sequence of polling cycles, interleaved with subscribe and
\* unsubscribe commands, the scheduler starts a delivery for a given
\* (item id, destination) at most once, also when the item is listed twice in
\* one listing or again in later listings.
C1_DeliveredAtMostOnce == \A k \in Chats \X PostIds : pollAttempts[k] <= 1

\* An item delivered before is listed again in the second cycle and skipped
C1_Witness ==
    /\ cycle = 2
    /\ \E i \in 1..Len(passLog) :
         /\ passLog[i] = "seen"
         /\ pollAttempts[<<sub.chat_id, posts[i].id>>] = 1

\* C2, as stated: at the end of a backfill pass that fetched N items there are
\* N new seen records for (d, f) and no transport call was made.
C2_Original ==
    (pc = "subdone" /\ only_mark_seen)
        => /\ passCalls = 0
           /\ Cardinality(SeenFor(sub.chat_id, sub.subreddit)) = Len(posts)

\* C2, amended: a backfill pass makes no transport call and starts no
\* delivery, and marks seen exactly the fetched items that pass the kind
\* filter, are not yet seen for the chat and whose ledger access succeeds; an
\* item the filter rejects gets no record.
C2_Backfill ==
    only_mark_seen
        => /\ passCalls = 0
           /\ pc \notin {"process", "deliver"}
           /\ pc = "subdone" => Len(passLog) = Len(posts)
           /\ \A i \in 1..Len(passLog) :
                /\ passLog[i] \in {"filtered", "seen", "marked", "write_err", "open_err"}
                /\ FilterRejects(SubFilter(sub), posts[i])
                     => passLog[i] \in {"filtered", "open_err"}
                /\ passLog[i] = "filtered" => FilterRejects(SubFilter(sub), posts[i])
                /\ passLog[i] \in {"marked", "seen"} => IsPostSeen(post, sub.chat_id, posts[i])
           /\ { r.post_id : r \in SeenFor(sub.chat_id, sub.subreddit) }
                = { posts[i].id : i \in { j \in 1..Len(passLog) : passLog[j] = "marked" } }

\* A backfill pass over two items has marked both and sent nothing
C2_Witness ==
    /\ pc = "subdone" /\ only_mark_seen
    /\ passLog = << "marked", "marked" >>
    /\ Cardinality(SeenFor(sub.chat_id, sub.subreddit)) = 2
    /\ passCalls = 0

\* C3, as stated: an item the filter rejects is not delivered and is marked seen.
C3_Original ==
    \A i \in 1..Len(posts) :
        (i <= Len(passLog) /\ FilterRejects(SubFilter(sub), posts[i]))
            => (passLog[i] = "filtered" /\ IsPostSeen(post, sub.chat_id, posts[i]))

\* C3, amended: an item the filter rejects is never processed or delivered,
\* and the check of that item writes nothing to the ledger.
C3_FilterSkips ==
    /\ [](pc \in {"process", "deliver", "mark"} => ~FilterRejects(SubFilter(sub), CurPost))
    /\ [][ (pc = "check" /\ FilterRejects(SubFilter(sub), CurPost) /\ passLog' # passLog)
             => /\ post' = post
                /\ telegram_file' = telegram_file
                /\ pollAttempts' = pollAttempts
                /\ passCalls' = passCalls
                /\ pc' \in {"check", "subdone"} ]_vars

\* The filter has rejected an item, and the ledger has no row for it
C3_Witness ==
    \E i \in 1..Len(passLog) :
        /\ passLog[i] = "filtered"
        /\ ~HasRecord(post, sub.chat_id, posts[i].id)

\* C4: when the resolver or the delivery fails for an unseen polled item, the
\* item is recorded as seen all the same, and no later step of the scheduler
\* starts a delivery for an item it has tried before.
C4_FailedNeverRetried ==
    /\ (pc = "mark" /\ outcome \in Failures) => IsPostSeen(post, sub.chat_id, CurPost)
    /\ \A c \in Chats, f \in Feeds : \A p \in Catalogue(f) :
         pollAttempts[<<c, p.id>>] > 0 => IsPostSeen(post, c, p)
    /\ pc = "deliver" => pollAttempts[<<sub.chat_id, CurPost.id>>] = 0

\* The resolver has failed for a polled item, which is marked seen
C4_Witness ==
    /\ pc = "mark" /\ outcome = "resolver_err"
    /\ IsPostSeen(post, sub.chat_id, CurPost)

\* C5, as stated: a failure while one item is processed, a failed ledger read
\* included, never leaves later items or subscriptions of the cycle unprocessed.
C5_Claim ==
    ~(/\ pc = "panicked"
      /\ panicCause = "ledger_read"
      /\ (postIdx < Len(posts) \/ subIdx < Len(subs)))

\* C6: a failed fetch of one subscription writes no record and delivers
\* nothing, the scheduler goes on with the next subscription of the cycle, the
\* registry is left as it is, and every cycle starts from the whole registry.
C6_FetchFailure ==
    /\ [][ (passLog' = << "fetch_err" >> /\ passLog' # passLog)
             => /\ post' = post
                /\ telegram_file' = telegram_file
                /\ pollAttempts' = pollAttempts
                /\ passCalls' = passCalls
                /\ subscription' = subscription
                /\ pc' = "subdone" ]_vars
    /\ [][ (pc = "subdone" /\ passLog = << "fetch_err" >> /\ pc' # pc)
             => /\ post' = post
                /\ pollAttempts' = pollAttempts
                /\ subscription' = subscription
                /\ IF subIdx < Len(subs)
                   THEN pc' = "fetch" /\ subIdx' = subIdx + 1
                   ELSE pc' = "sleep" ]_vars
    /\ [][ (cycle' # cycle /\ pc' = "fetch")
             => /\ Len(subs') = Len(subscription)
                /\ \A i \in 1..Len(subscription) :
                      /\ subs'[i].chat_id = subscription[i].chat_id
                      /\ subs'[i].subreddit = subscription[i].subreddit ]_vars

\* The fetch of a subscription has failed and another one is still to be polled
C6_Witness ==
    /\ pc = "subdone" /\ passLog = << "fetch_err" >>
    /\ subIdx < Len(subs)
    /\ post = {}

\* C7, as stated: after a failed transport call the item is not marked seen.
C7_Original ==
    (pc = "mark" /\ outcome = "transport_err") => ~IsPostSeen(post, sub.chat_id, CurPost)

\* C7, amended: when the transport call fails the error is logged and dropped,
\* the item is marked seen (it was marked before the delivery started), and
\* the loop goes on with the items that follow.
C7_SeenDespiteTransportError ==
    /\ (pc = "mark" /\ outcome \in TransportFailures)
         => IsPostSeen(post, sub.chat_id, CurPost)
    /\ \A i \in 1..Len(passLog) :
         passLog[i] \in TransportFailures => IsPostSeen(post, sub.chat_id, posts[i])

\* The transport call failed for the first item, and the second was handled
C7_Witness ==
    /\ Len(passLog) = 2
    /\ passLog[1] = "transport_err"
    /\ IsPostSeen(post, sub.chat_id, posts[1])

\* C8, as stated: a polled gallery without its metadata never ends the process.
C8_Claim == ~(~alive /\ panicCause = "panic_gallery")

\* C9: a step that removes subscriptions leaves the ledger as it is, and every
\* item that was seen before it is seen after it.
C9_UnsubKeepsLedger ==
    [][ (cmds' # cmds /\ Len(subscription') < Len(subscription))
          => /\ post' = post
             /\ \A c \in Chats, f \in Feeds : \A p \in Catalogue(f) :
                  IsPostSeen(post, c, p) => IsPostSeen(post', c, p) ]_vars

\* The last subscription was removed, and a seen record is still there
C9_Witness ==
    /\ cmds = 1 /\ subscription = <<>>
    /\ \E r \in post : r.seen_at # NULL

\* C10: the on-demand path handles the fetched items whether or not the chat is
\* subscribed, never changes the registry, and leaves a ledger record for
\* every item it has handled.
C10_OnDemand ==
    /\ [][ getCount' # getCount
             => /\ subscription' = subscription
                /\ HasRecord(post', getChat, Head(getPosts).id) ]_vars
    /\ [][ (getPc' # getPc \/ getPosts' # getPosts) => subscription' = subscription ]_vars

\* /get has delivered an item to a chat that has no subscription
C10_Witness ==
    /\ \A i \in 1..Len(subscription) : subscription[i].chat_id # 7
    /\ \E id \in PostIds : getCount[<<7, id>>] = 1 /\ HasRecord(post, 7, id)

\* The media ids of a media group, in its order
GroupIds(group) == [i \in 1..Len(group) |-> group[i].media]

\* The permalinks of a caption or message text
Permalinks(text) ==
    SelectSeq(text, LAMBDA part : part[1] = "anchor" /\ part[2] \in {"comments", "old"})

\* C11, as stated: a gallery with three sub-items whose second download fails
\* is delivered as one media group of sub-items 1 and 3, in the order of the
\* gallery, with the caption on sub-item 1.
C11_Claim ==
    (hPc = "done" /\ hPost.post_type = "Gallery" /\ gFailed = {"m2"})
        => /\ sent # <<>>
           /\ sent[1].method = "send_media_group"
           /\ GroupIds(sent[1].media) = << "m1", "m3" >>
           /\ sent[1].media[1].caption = FormatMediaCaptionHtml(hPost, config.links_base_url)

\* C12, as stated: a delivery that succeeds has made exactly one send call.
C12_Original == (hPc = "done" /\ hResult = "ok") => Len(sent) = 1

\* C12, amended: a delivery that succeeds has made exactly one single-message
\* call for an Image, Video, Link or SelfText item; for a Gallery item it has
\* made one grouped call followed by one text message "To repost:" that
\* carries the repost buttons.  No delivery makes more calls than that, and
\* every call goes to the chat of the delivery.
C12_CallsPerDelivery ==
    /\ \A i \in 1..Len(sent) : sent[i].chat_id = hChat
    /\ hPc # "idle" =>
         Len(sent) <= (IF hPost.post_type = "Gallery" THEN 2 ELSE 1)
    /\ (hPc = "done" /\ hResult = "ok") =>
         IF hPost.post_type = "Gallery"
         THEN /\ Len(sent) = 2
              /\ sent[1].method = "send_media_group"
              /\ sent[2].method = "send_message"
              /\ sent[2].text = << << "text", "To repost:" >> >>
              /\ sent[2].reply_markup = "gallery"
         ELSE /\ Len(sent) = 1
              /\ sent[1].method \in {"send_photo", "send_video", "send_message"}
              /\ sent[1].media = <<>>

\* A gallery was delivered with a grouped call and the "To repost:" message
C12_Witness ==
    /\ hPc = "done" /\ hResult = "ok"
    /\ hPost.post_type = "Gallery"
    /\ Len(sent) = 2
    /\ sent[1].ok /\ sent[2].ok

\* C16, as stated: in the end-to-end scenario one poll cycle over the listing
\* of the one Image item "abc", handled without error, leaves exactly one seen
\* record (abc, 42), has made exactly one photo call whose caption holds the
\* title and two permalinks, and has run the transcoder zero times.
C16_Original ==
    (/\ cycle = 1 /\ pc = "subdone"
     /\ posts = << Image("aww") >>
     /\ passLog \in { << "ok" >>, << "marked" >> })
        => /\ { <<r.post_id, r.chat_id>> : r \in post } = { << "abc", 42 >> }
           /\ IsPostSeen(post, 42, Image("aww"))
           /\ Len(sent) = 1
           /\ sent[1].method = "send_photo"
           /\ << "text", "T-abc" >> \in { sent[1].text[i] : i \in 1..Len(sent[1].text) }
           /\ Len(Permalinks(sent[1].text)) = 2
           /\ ytdlp = 0

\* C16, amended: in the scenario with backfill-skip disabled and the item
\* handled without error, one poll cycle leaves exactly one seen record
\* (abc, 42), has made exactly one transport call, send_photo (send_video
\* when the downloaded file is a gif), whose caption holds the title and two
\* permalinks (one when a links_base_url is configured), and has run the
\* transcoder zero times.  With backfill-skip enabled the cycle leaves the
\* same record and makes no transport call.
C16_Scenario ==
    (/\ cycle = 1 /\ pc = "subdone"
     /\ posts = << Image("aww") >>
     /\ passLog \in { << "ok" >>, << "marked" >> })
        => /\ { <<r.post_id, r.chat_id>> : r \in post } = { << "abc", 42 >> }
           /\ IsPostSeen(post, 42, Image("aww"))
           /\ ytdlp = 0
           /\ passLog = << "marked" >> <=> config.skip_initial_send
           /\ IF config.skip_initial_send
              THEN sent = <<>> /\ passCalls = 0
              ELSE /\ Len(sent) = 1 /\ passCalls = 1
                   /\ sent[1].method \in {"send_photo", "send_video"}
                   /\ sent[1].chat_id = 42
                   /\ sent[1].ok
                   /\ << "text", "T-abc" >>
                        \in { sent[1].text[i] : i \in 1..Len(sent[1].text) }
                   /\ Len(Permalinks(sent[1].text))
                        = (IF config.links_base_url = None THEN 2 ELSE 1)

\* The scenario has run with backfill-skip disabled: one photo call, the
\* caption with two permalinks, one seen record
C16_Witness ==
    /\ cycle = 1 /\ pc = "subdone"
    /\ posts = << Image("aww") >>
    /\ passLog = << "ok" >>
    /\ ~config.skip_initial_send /\ config.links_base_url = None
    /\ Len(sent) = 1 /\ sent[1].method = "send_photo"
    /\ Len(Permalinks(sent[1].text)) = 2
    /\ IsPostSeen(post, 42, Image("aww"))

\* Chat c has a repost channel registered
Registered(c) == \E r \in chat : r.chat_id = c /\ r.repost_channel_id # NULL

\* C13: when a repost button is pressed in a chat with no registered repost
\* channel (the chat has no row, or has one only because it subscribed), no
\* call is made to a repost channel and the chat is told "Repost channel not
\* registered".  (The title the button asks for, if any, is in the ledger.)
C13_Claim ==
    (/\ handledBy = "callback_handler"
     /\ ~Registered(inbound[1].chat_id)
     /\ (inbound[2].copy_caption =>
            GetPostTitle(post, inbound[1].chat_id, inbound[2].post_id).ok))
        => /\ repostCalls = <<>>
           /\ reply = << "Repost channel not registered" >>

\* The sender of update u is present and authorised
Authorised(u) == u.from # <<>> /\ u.from[1] \in config.authorized_user_ids

\* C14: an update whose sender is absent or not authorised reaches no command
\* handler and no callback handler: it goes to the default handler, nothing is
\* sent to the chat or to a repost channel, and no table changes.
C14_NoHandlerForStrangers ==
    [][(cmds' # cmds /\ ~Authorised(inbound'[1]))
          => /\ handledBy' = "default_handler"
             /\ reply' = <<>>
             /\ repostCalls' = <<>>
             /\ UNCHANGED dbVars]_vars

\* A /sub message with no sender was dropped
C14_Witness ==
    /\ inbound # <<>>
    /\ inbound[1].from = <<>>
    /\ inbound[1].command = "sub"
    /\ handledBy = "default_handler"

\* C15: after the shutdown signal the poll loop eventually ends; a loop that
\* sleeps after a cycle can break on the message without the sleep ending; the
\* loop breaks only between cycles, so a cycle in progress runs to its end;
\* and a loop that has broken starts no cycle and writes nothing any more.
C15_Shutdown ==
    /\ shutdown ~> LoopEnded
    /\ [](alive /\ pc = "sleep" /\ cycle > 0 /\ shutdown_rx => ENABLED PollRecv)
    /\ [][pc' = "stopped" /\ pc # "stopped" => pc = "sleep"]_vars
    /\ [][pc = "stopped" => pc' = "stopped" /\ UNCHANGED << cycle, dbVars, pollHist >>]_vars

\* After a cycle that wrote the ledger the loop received the message of the
\* signal thread and broke
C15_Witness ==
    /\ pc = "stopped"
    /\ shutdown
    /\ sigPc = "wait"
    /\ ~shutdown_rx
    /\ post # {}

\* C17 as stated: every ledger row with a timestamp belongs to an item whose
\* delivery to that chat was attempted at least once (by the poll task or by
\* /get).
C17_Original ==
    \A r \in post :
        r.seen_at # NULL =>
            pollAttempts[<< r.chat_id, r.post_id >>] + getCount[<< r.chat_id, r.post_id >>] >= 1

\* This step gives the row of (c, id) its timestamp
BecomesSeen(c, id) ==
    /\ ~(\E r \in post : r.chat_id = c /\ r.post_id = id /\ r.seen_at # NULL)
    /\ \E r \in post' : r.chat_id = c /\ r.post_id = id /\ r.seen_at # NULL

\* C17: a ledger row gets its timestamp in two ways only: a backfill pass
\* marks the item without delivering it, or process_post writes it and the
\* next step of the poll task is the delivery attempt for that item.
C17_SeenByBackfillOrAttempt ==
    /\ [][\A c \in Chats, id \in PostIds :
            BecomesSeen(c, id) =>
                /\ c = sub.chat_id
                /\ id = CurPost.id
                /\ IF only_mark_seen THEN pc = "mark"
                   ELSE pc = "process" /\ pc' = "deliver"]_vars
    /\ [][pc = "deliver" /\ pc' # "deliver" =>
            pollAttempts'[<< sub.chat_id, CurPost.id >>] =
                pollAttempts[<< sub.chat_id, CurPost.id >>] + 1]_vars

\* process_post has written the timestamp and the attempt is about to start
C17_Witness ==
    /\ pc = "deliver"
    /\ ~only_mark_seen
    /\ IsPostSeen(post, sub.chat_id, CurPost)
    /\ pollAttempts[<< sub.chat_id, CurPost.id >>] = 0

C19_LedgerMonotonic ==
    [][\A r \in post :
          /\ \E q \in post' : q.post_id = r.post_id /\ q.chat_id = r.chat_id
          /\ r.seen_at # NULL => r \in post']_vars

\* A row marked seen at t1 under feed "aww" met a second mark-seen and is
\* still the same row
C19_Witness ==
    /\ ledgerOp = << "mark_seen", "seen" >>
    /\ \E r \in post : r.seen_at = << "t1" >> /\ r.subreddit = "aww" /\ r.post_title = "T-abc"

\* C20: the registry never holds two rows for one (chat, feed); after a
\* successful /sub the list of the chat has exactly one row for the feed, with
\* the limit, time and filter that were given (a second /sub for the same feed
\* replaces the row), and the other rows of the chat are as before; after
\* /unsub the list of the chat has no row for the feed.
C20_Registry ==
    /\ [](\A i, j \in 1..Len(subscription) :
            (subscription[i].chat_id = subscription[j].chat_id
             /\ subscription[i].subreddit = subscription[j].subreddit) => i = j)
    /\ [][(cmds' # cmds /\ handledBy' = "handle_command" /\ inbound'[1].command = "sub"
           /\ reply'[1] = "Subscribed to r/")
          => LET c == inbound'[1].chat_id
                 args == inbound'[2]
                 before == GetSubscriptionsForChat(subscription, c)
                 after == GetSubscriptionsForChat(subscription', c)
             IN  /\ SelectSeq(after, LAMBDA r : r.subreddit = args.subreddit)
                      = << [chat_id |-> c, subreddit |-> args.subreddit, limit |-> args.limit,
                            time |-> args.time, filter |-> args.filter] >>
                 /\ SelectSeq(after, LAMBDA r : r.subreddit # args.subreddit)
                      = SelectSeq(before, LAMBDA r : r.subreddit # args.subreddit)]_vars
    /\ [][(cmds' # cmds /\ handledBy' = "handle_command" /\ inbound'[1].command = "unsub")
          => LET after == GetSubscriptionsForChat(subscription', inbound'[1].chat_id)
             IN  \A i \in 1..Len(after) : after[i].subreddit # inbound'[2]]_vars

\* Chat 42, subscribed to "aww" with limit 2, sent /sub for "aww" again
C20_Witness ==
    /\ handledBy = "handle_command"
    /\ inbound # <<>>
    /\ inbound[1].command = "sub"
    /\ inbound[1].chat_id = 42
    /\ reply = << "Subscribed to r/", "aww" >>
    /\ post # {}
    /\ GetSubscriptionsForChat(subscription, 42)
         = << [chat_id |-> 42, subreddit |-> "aww", limit |-> NoLimit, time |-> "Week",
               filter |-> "Video"] >>

\* C21: the classifier is total and its priority is fixed: it gives every
\* entry exactly one of the six kinds, Gallery when the gallery flag is set,
\* else SelfText when the self-post flag is set, else Video when the video flag
\* is set or the type hint names a video, else Image when the type hint is
\* "image", else Unknown when there is no type hint, and Link otherwise.
C21_ClassifierPriority ==
    output # <<>>
        => LET k == output[1]
               g == input.is_gallery = <<TRUE>>
               v == input.is_video \/ input.post_hint \in {<<"video">>, <<"rich:video">>}
           IN  /\ k \in PostTypes
               /\ g => k = "Gallery"
               /\ (~g /\ input.is_self) => k = "SelfText"
               /\ (~g /\ ~input.is_self /\ v) => k = "Video"
               /\ (~g /\ ~input.is_self /\ ~v /\ input.post_hint = <<"image">>)
                     => k = "Image"
               /\ (~g /\ ~input.is_self /\ ~v /\ input.post_hint = <<>>)
                     => k = "Unknown"
               /\ (~g /\ ~input.is_self /\ ~v /\ input.post_hint \notin {<<"image">>, <<>>})
                     => k = "Link"

\* An entry flagged as self post and as video, with the hint of an image, is
\* classified SelfText
C21_Witness ==
    /\ input \in RawPosts
    /\ input.is_gallery # <<TRUE>>
    /\ input.is_self
    /\ input.is_video
    /\ input.post_hint = <<"image">>
    /\ output = <<"SelfText">>

\* The key of a token of the form key=value, None for any other token
KeyOf(tok) == IF Head(tok) \in Keys THEN Head(tok) ELSE None

\* The input has the form <feed> [limit=N] [time=T] [filter=K]: a feed token,
\* then key=value tokens, each key at most once
WellFormed(in) ==
    /\ in # <<>>
    /\ KeyOf(Head(in)) = None
    /\ \A i \in 2..Len(in) : KeyOf(in[i]) # None
    /\ \A i, j \in 2..Len(in) : KeyOf(in[i]) = KeyOf(in[j]) => i = j

\* The value written after the key in a well-formed input; <<>> when the key is absent
ValueOf(in, key) ==
    IF \E i \in 2..Len(in) : Head(in[i]) = key
    THEN << Tail(in[CHOOSE i \in 2..Len(in) : Head(in[i]) = key]) >>
    ELSE <<>>

\* C22: parsing "<feed> [limit=N] [time=T] [filter=K]" gives the feed name of
\* the first token without its "r/" or "/r/" prefix, None for every absent
\* key, limit 5, time Week and filter Video for "limit=5 time=week
\* filter=video", and a parse error whenever the time or the filter value is
\* not a recognised one.
C22_Parse ==
    (output # <<>> /\ WellFormed(input))
        => LET r == output[1]
               t == ValueOf(input, "time=")
               f == ValueOf(input, "filter=")
               l == ValueOf(input, "limit=")
               bad == \/ t # <<>> /\ t[1] # << "week" >>
                      \/ f # <<>> /\ f[1] # << "video" >>
           IN  /\ bad <=> r.kind # "Ok"
               /\ r.kind = "Ok"
                    => /\ r.args.subreddit = << "pics" >>
                       /\ t = <<>> <=> r.args.time = None
                       /\ f = <<>> <=> r.args.filter = None
                       /\ l = <<>> => r.args.limit = NoLimit
                       /\ t = << << "week" >> >> => r.args.time = "Week"
                       /\ f = << << "video" >> >> => r.args.filter = "Video"
                       /\ l = << << "5" >> >> => r.args.limit = << 5 >>

C24_Claim ==
    panicCause = "panic_get_link" => (alive /\ pc # "panicked")

\* C25: within a cycle the scheduler works through the subscriptions read at
\* the start of the cycle one after another in their order, through the
\* items of a listing in the order of the listing, each item only after every
\* earlier item of the listing has been dealt with, and it starts one delivery
\* at a time, for the item it is at.
C25_Sequential ==
    /\ [][ /\ cycle' = cycle => (subs' = subs /\ subIdx' \in {subIdx, subIdx + 1})
           /\ posts' = posts => postIdx' \in {postIdx, postIdx + 1}
           /\ subIdx' # subIdx => pc = "subdone" \/ pc = "sleep"
           /\ postIdx' = postIdx + 1 => Len(passLog') = postIdx
           /\ pollAttempts' # pollAttempts
                => /\ pc = "deliver"
                   /\ sub = subs[subIdx]
                   /\ pollAttempts' =
                        [pollAttempts EXCEPT ![<< sub.chat_id, posts[postIdx].id >>] = @ + 1]
         ]_vars
    /\ [](pc \in {"check", "process", "deliver", "mark"}
            => /\ sub = subs[subIdx]
               /\ postIdx \in 1..Len(posts)
               /\ Len(passLog) = postIdx - 1)

\* The second item of a listing is being delivered, after the first one was
C25_Witness ==
    /\ pc = "deliver"
    /\ postIdx = 2
    /\ pollAttempts[<< sub.chat_id, posts[1].id >>] = 1
    /\ pollAttempts[<< sub.chat_id, posts[2].id >>] = 0

\* C26, as stated: every storage operation goes through one shared handle
\* guarded by a mutex, so no two tasks are inside a storage operation at the
\* same time, and between the seen-check of the poll task and its mark-seen no
\* other task writes the row of the same key.
C26_Claim ==
    /\ \A t, u \in Tasks :
          (dbTask[t].pc # "idle" /\ dbTask[u].pc # "idle")
              => dbTask[t].handle = dbTask[u].handle
    /\ \A t, u \in Tasks :
          (dbTask[t].pc \in InStatement /\ dbTask[u].pc \in InStatement) => t = u
    /\ dbTask["poll"].pc \in {"checked", "mark"}
          => RowState(post, dbTask["poll"].chat_id, dbTask["poll"].item) = dbTask["poll"].met

\* C27, as stated: when the button pressed names a post that has no stored
\* title for the chat (and the caption is asked for) or no stored file handles
\* for the chat (and the button is the gallery one), the user who pressed it is
\* told of the failure and no call is made to the repost channel.
C27_Claim ==
    (handledBy = "callback_handler" /\ inbound # <<>>)
        => LET u == inbound[1]
               data == inbound[2]
               noTitle == data.copy_caption /\ ~GetPostTitle(post, u.chat_id, data.post_id).ok
               noFiles == /\ data.is_gallery
                          /\ GetTelegramFilesForPost(telegram_file, data.post_id, u.chat_id) = <<>>
           IN  (noTitle \/ noFiles) => (reply # <<>> /\ repostCalls = <<>>)

\* The place of media id m in gallery_data.items
GalleryPos(m) == CHOOSE k \in 1..Len(GalleryItems) : GalleryItems[k] = m

\* C28: the media group of a gallery delivery holds the downloaded artifacts
\* in the order of the gallery list of the item, whatever the order of the
\* downloads was, and exactly one member, the first, carries the caption.
C28_GroupOrder ==
    \A i \in 1..Len(sent) :
        sent[i].method = "send_media_group"
            => LET g == sent[i].media
               IN  /\ { g[k].media : k \in 1..Len(g) } = gFiles
                   /\ \A a, b \in 1..Len(g) :
                         a < b => GalleryPos(g[a].media) < GalleryPos(g[b].media)
                   /\ \A k \in 1..Len(g) :
                         IF k = 1
                         THEN /\ g[k].caption =
                                   FormatMediaCaptionHtml(hPost, config.links_base_url)
                              /\ g[k].caption # <<>>
                         ELSE g[k].caption = <<>>

\* A gallery whose first item has no download was sent as a group of the
\* second and third item
C28_Witness ==
    /\ hPc = "done" /\ hResult = "ok"
    /\ Len(sent) = 2
    /\ sent[1].method = "send_media_group"
    /\ Len(sent[1].media) = 2
    /\ sent[1].media[1].media = "m2"
    /\ sent[1].media[2].media = "m3"
    /\ sent[1].media[1].caption # <<>>

\* C29, as stated: after a successful gallery delivery the lookup of the file
\* handles stored for (item, chat) returns exactly the handles of the group
\* that was sent, in the order of the group, also when the gallery was
\* delivered to the chat before.
C29_Claim ==
    (hPc = "done" /\ hResult = "ok" /\ hPost.post_type = "Gallery")
        => \E t \in UploadTags :
              GetTelegramFilesForPost(telegram_file, hPost.id, hChat)
                  = [k \in 1..Len(sent[1].media) |-> << sent[1].media[k].media, t >>]

\* C30: a post whose type is Unknown, also after it was fetched again, is
\* handled without error: the handler makes the one send_message call a Link
\* post with the same fields gets, with the same text and the same buttons,
\* its result is the result of that call, and the poll task marks the post seen.
C30_UnknownAsLink ==
    /\ (hPc = "done" /\ hPost.post_type = "Unknown" /\ hResult \notin Panics)
          => /\ Len(sent) = 1
             /\ sent[1] = Call("send_message", hChat,
                               FormatLinkMessageHtml([hPost EXCEPT !.post_type = "Link"],
                                                     config.links_base_url),
                               <<>>, "post", sent[1].ok)
             /\ hResult = IF sent[1].ok THEN "ok" ELSE "transport_err"
    /\ (pc \in {"handling", "mark"} /\ ~only_mark_seen /\ CurPost.post_type = "Unknown")
          => IsPostSeen(post, sub.chat_id, CurPost)
    /\ \A i \in 1..Len(posts) :
          (/\ i <= Len(passLog)
           /\ posts[i].post_type = "Unknown"
           /\ passLog[i] \in {"ok", "transport_err"})
              => IsPostSeen(post, sub.chat_id, posts[i])

\* The poll task has delivered an Unknown post with one send_message call and
\* the post is marked seen
C30_Witness ==
    /\ pc = "subdone"
    /\ Len(posts) = 1
    /\ posts[1].post_type = "Unknown"
    /\ passLog = << "ok" >>
    /\ Len(sent) = 1
    /\ sent[1].method = "send_message"
    /\ sent[1].ok
    /\ IsPostSeen(post, 42, posts[1])

\* C31: every row of the subscription table has a row of the chat table with
\* its chat_id, the chat table never holds two rows with one chat_id, and a
\* /sub command leaves every row the chat table already held as it was (the
\* repost channel of the chat included).
C31_ChatRows ==
    /\ [](\A i \in 1..Len(subscription) :
             \E r \in chat : r.chat_id = subscription[i].chat_id)
    /\ [](\A r1, r2 \in chat : r1.chat_id = r2.chat_id => r1 = r2)
    /\ [][(handledBy' = "handle_command" /\ inbound'[1].command = "sub")
             => /\ chat \subseteq chat'
                /\ \A r \in chat' \ chat : /\ r.chat_id = inbound'[1].chat_id
                                           /\ r.repost_channel_id = NULL]_vars

\* A chat with a registered repost channel has subscribed to a second feed and
\* its one chat row still names the channel
C31_Witness ==
    /\ handledBy = "handle_command"
    /\ inbound[1].command = "sub"
    /\ reply = << "Subscribed to r/", "pics" >>
    /\ Len(subscription) = 2
    /\ \E r \in chat : r.chat_id = inbound[1].chat_id /\ r.repost_channel_id = << -100 >>

\* C32: once a shutdown signal has been forwarded to the poll loop, the signal
\* thread handles no further signal without ending the process: the step in
\* which it finishes a later signal, whatever the poll loop is doing, leaves
\* the process exited.
C32_Claim ==
    [][(sigPc = "send" /\ shutdown_rx /\ sigPc' = "wait") => ~alive']_vars

\* The ledger holds a row marked seen for the id of p and the chat, written for
\* another feed than the one p was fetched from
SeenInOtherFeed(p, chat_id) ==
    \E r \in post : /\ r.post_id = p.id /\ r.chat_id = chat_id /\ r.seen_at # NULL
                    /\ r.subreddit # p.subreddit

\* C33: an item whose id has a seen row for the chat under another feed is
\* never handed to the delivery handler by the poll of this feed: its check
\* ends as seen (or filtered, or with a database error), and no item in that
\* case is being processed.
C33_KeyedByIdAndChat ==
    /\ (pc \in {"process", "deliver"}) => ~SeenInOtherFeed(CurPost, sub.chat_id)
    /\ \A i \in 1..Len(posts) :
          (i <= Len(passLog) /\ SeenInOtherFeed(posts[i], sub.chat_id))
              => passLog[i] \in {"seen", "filtered", "open_err"}

\* The poll of pics has met the item abc, which chat 42 has seen in aww, and
\* has skipped it as seen
C33_Witness ==
    /\ sub.subreddit = "pics"
    /\ \E i \in 1..Len(posts) :
          /\ i <= Len(passLog)
          /\ posts[i].id = "abc"
          /\ passLog[i] = "seen"
          /\ SeenInOtherFeed(posts[i], sub.chat_id)
          /\ pollAttempts[<< sub.chat_id, "abc" >>] = 1

(* ---- main.rs: the --debug-post mode ------------------------------------ *)

\* main with --debug-post <linkid> --chat-id <chatid>: get_link, record_post
\* with no seen_at, then handle_new_post, whose result main returns; the
\* process ends without starting the poll loop or the dispatcher
DebugPost ==
    /\ alive /\ pc = "sleep" /\ cycle = 0 /\ cmds = 0 /\ getPc = "idle"
    /\ \E chat_id \in Chats, f \in Feeds :
         \E p \in Catalogue(f) :
            /\ post' = RecordPost(post, chat_id, p, NULL)
            /\ \E o \in HandleNewPost(p) :
                 /\ outcome' = o
                 /\ telegram_file' \in FilesAfter(telegram_file, p, chat_id, o)
    /\ alive' = FALSE
    /\ UNCHANGED << config, auxVars, subscription, chat, pollVars, passLog, passCalls,
                    pollAttempts, botVars >>

\* main with --debug-post and no --chat-id (the post is only printed), or
\* get_link, Database::open or record_post fails: the process ends and
\* nothing is written
DebugPostOnly ==
    /\ alive /\ pc = "sleep" /\ cycle = 0 /\ cmds = 0 /\ getPc = "idle"
    /\ alive' = FALSE
    /\ UNCHANGED << config, auxVars, dbVars, pollVars, pollHist, botVars >>

\* The process starts with chat 42 subscribed to pics, one item a cycle, with
\* or without a filter, and nothing recorded
InitStore ==
    /\ config \in Configs
    /\ post = {}
    /\ \E filter \in {None, "video"} :
         subscription = << [chat_id |-> 42, subreddit |-> "pics", limit |-> <<1>>,
                            time |-> None, filter |-> filter] >>
    /\ chat = { [chat_id |-> 42, repost_channel_id |-> NULL] }
    /\ telegram_file = <<>>
    /\ alive = TRUE
    /\ pc = "sleep"
    /\ cycle = 0
    /\ subs = <<>>
    /\ subIdx = 0
    /\ sub = NoSub
    /\ posts = <<>>
    /\ postIdx = 0
    /\ only_mark_seen = FALSE
    /\ panicCause = None
    /\ cmds = 0
    /\ getPc = "idle"
    /\ getChat = 0
    /\ getPosts = <<>>
    /\ passLog = <<>>
    /\ passCalls = 0
    /\ outcome = None
    /\ pollAttempts = [k \in Chats \X PostIds |-> 0]
    /\ getCount = [k \in Chats \X PostIds |-> 0]
    /\ HandleIdle
    /\ UnitIdle
    /\ ConnIdle

DebugNext == DebugPost \/ DebugPostOnly

\* Every caller of handle_new_post: the poll loop, /get, and the debug mode
NextStore == PollNext \/ GetNext \/ DebugNext

SpecStore == InitStore /\ [][NextStore]_vars

\* The ledger row of the post for the chat is pending: its seen_at is null
Pending(p, chat_id) ==
    \E r \in post : r.post_id = p.id /\ r.chat_id = chat_id /\ r.seen_at = NULL

\* check_post_newness has ended its checks of the current post: it returned,
\* went on to process_post or to the mark, or panicked
CheckStep == pc = "check" /\ (pc' # pc \/ passLog' # passLog)

\* handle_get_command has ended its handling of the first post left
GetStep == getPc = "run" /\ (getCount' # getCount \/ getPosts' # getPosts)

\* C34 as stated: a polled item whose ledger row is pending is delivered again
\* by the scheduler in every case (a failing ledger access aside).
C34_Original ==
    [][(CheckStep /\ Pending(CurPost, sub.chat_id))
          => \/ pc' = "process"
             \/ pc' = "panicked"
             \/ passLog' = Append(passLog, "open_err")]_vars

\* C34: the /get handler writes only pending rows and changes no row that
\* exists, and it handles every item it is given, seen or not, unless its
\* record_post fails; the scheduler treats an item with a pending row as an
\* item with no row: it is neither skipped as seen nor left out for the row,
\* and is delivered unless the subscription's filter rejects it or the cycle is
\* a backfill pass, in which case it is only marked.
C34_PendingIsUnseen ==
    /\ [][GetStep
             => /\ post \subseteq post'
                /\ \A r \in post' \ post : r.seen_at = NULL /\ r.chat_id = getChat
                /\ \/ getCount' = [getCount EXCEPT ![<< getChat, Head(getPosts).id >>] = @ + 1]
                   \/ getCount' = getCount /\ post' = post /\ getPosts' = <<>>]_vars
    /\ [][(CheckStep /\ Pending(CurPost, sub.chat_id))
             => \/ pc' = "process" /\ ~only_mark_seen
                                   /\ ~FilterRejects(SubFilter(sub), CurPost)
                \/ pc' = "mark" /\ only_mark_seen
                \/ passLog' = Append(passLog, "filtered")
                     /\ FilterRejects(SubFilter(sub), CurPost)
                \/ pc' = "panicked"
                \/ passLog' = Append(passLog, "open_err")]_vars

\* The scheduler is about to deliver an item to chat 42 that /get has
\* delivered to it before and whose row is still pending
C34_Witness ==
    /\ pc = "process"
    /\ getPc = "idle"
    /\ Pending(CurPost, sub.chat_id)
    /\ getCount[<< sub.chat_id, CurPost.id >>] = 1
    /\ pollAttempts[<< sub.chat_id, CurPost.id >>] = 0

\* check_new_posts_for_subscription has received the listing and decided the
\* backfill mode
FetchStep == pc = "fetch" /\ pc' \in {"check", "subdone"} /\ passLog' = <<>>

\* C35: the backfill mode is decided from the presence of any ledger row of
\* the (chat, feed) pair, pending rows included: with such a row the pass is
\* no backfill pass even though skip_initial_send is set, and in such a pass
\* every item that is not seen and passes the filter goes to process_post
\* (a failing ledger access aside).
C35_BackfillCountsPending ==
    /\ [][FetchStep =>
            only_mark_seen' =
              (/\ config.skip_initial_send
               /\ ~\E r \in post : /\ r.chat_id = subs[subIdx].chat_id
                                   /\ r.subreddit = subs[subIdx].subreddit)]_vars
    /\ [][(CheckStep /\ ~only_mark_seen
             /\ ~FilterRejects(SubFilter(sub), CurPost)
             /\ ~\E r \in post : /\ r.post_id = CurPost.id /\ r.chat_id = sub.chat_id
                                 /\ r.seen_at # NULL)
            => \/ pc' = "process"
               \/ pc' = "panicked"
               \/ passLog' = Append(passLog, "open_err")]_vars

\* skip_initial_send is set and the ledger holds nothing but the pending row
\* /get has written for gal of pics; the first poll of pics by chat 42 is no
\* backfill pass and is about to deliver abc
C35_Witness ==
    /\ config.skip_initial_send
    /\ cycle = 1
    /\ pc = "process"
    /\ ~only_mark_seen
    /\ sub.chat_id = 42 /\ sub.subreddit = "pics"
    /\ CurPost.id = "abc"
    /\ post = RecordPost({}, 42, Gallery("pics"), NULL)
    /\ getCount[<< 42, "gal" >>] = 1

\* The ledger rows of a (chat, feed) pair
RowsOf(chat_id, subreddit) ==
    { r \in post : r.chat_id = chat_id /\ r.subreddit = subreddit }

C37_Claim ==
    [][(handledBy' = "handle_command" /\ inbound'[1].command = "unsub")
          => LET chat_id == inbound'[1].chat_id
                 name == inbound'[2]
                 named(r) == r.chat_id = chat_id /\ r.subreddit = name
             IN  /\ subscription' = SelectSeq(subscription, LAMBDA r : ~named(r))
                 /\ (~\E i \in 1..Len(subscription) : named(subscription[i]))
                       => /\ subscription' = subscription
                          /\ reply' = << "Error: Not subscribed to r/", name >>]_vars

\* C38: what the callback handler sends for a button pressed in a chat is made
\* of that chat's rows only: every call goes to the repost channel in the chat
\* row of that chat and copies from that chat, its caption is empty or the
\* title in the ledger row of (post_id, that chat), and its media group is the
\* file ids of the telegram_file rows of (post_id, that chat), whatever post_id
\* the callback data carries and whatever other chats have stored.
C38_OwnChatOnly ==
    (handledBy = "callback_handler" /\ inbound # <<>>)
        => LET u == inbound[1]
               data == inbound[2]
               titles == { r.post_title : r \in { q \in post : /\ q.chat_id = u.chat_id
                                                               /\ q.post_id = data.post_id } }
               files == SelectSeq(telegram_file,
                                  LAMBDA r : r.chat_id = u.chat_id /\ r.post_id = data.post_id)
               channels == { r.repost_channel_id : r \in { q \in chat : q.chat_id = u.chat_id } }
           IN  \A i \in 1..Len(repostCalls) :
                  /\ << repostCalls[i].chat_id >> \in channels
                  /\ repostCalls[i].from_chat_id = u.chat_id
                  /\ repostCalls[i].caption \in
                        (IF data.copy_caption THEN titles ELSE {""})
                  /\ repostCalls[i].media =
                        (IF data.is_gallery
                         THEN [k \in 1..Len(files) |-> files[k].telegram_file_id]
                         ELSE <<>>)

\* A button pressed in chat 42 carries the id of the gallery that only chat 7
\* has received: the call goes to the channel of chat 42 and carries none of
\* the file handles stored for chat 7
C38_Witness ==
    /\ handledBy = "callback_handler"
    /\ inbound # <<>>
    /\ inbound[1].chat_id = 42
    /\ inbound[2] = [post_id |-> "gal", copy_caption |-> FALSE, is_gallery |-> TRUE]
    /\ \E i \in 1..Len(telegram_file) :
          telegram_file[i].chat_id = 7 /\ telegram_file[i].post_id = "gal"
    /\ Len(repostCalls) = 1
    /\ repostCalls[1].chat_id = -100
    /\ repostCalls[1].media = <<>>

\* C39: every row of telegram_file has a ledger row with its post_id and
\* chat_id; and when the poll task stores file handles, the ledger row of the
\* post was there before the step.
C39_FilesHaveLedgerRow ==
    /\ [](\A i \in 1..Len(telegram_file) :
             \E r \in post : /\ r.post_id = telegram_file[i].post_id
                             /\ r.chat_id = telegram_file[i].chat_id)
    /\ [][(pc = "deliver" /\ pc' # pc /\ telegram_file' # telegram_file)
            => \E r \in post : r.post_id = CurPost.id /\ r.chat_id = sub.chat_id]_vars

\* File handles of the gallery are stored for chat 42, delivered by the poll
\* task, and for chat 7, delivered by /get
C39_Witness ==
    /\ pollAttempts[<< 42, "gal" >>] = 1
    /\ getCount[<< 7, "gal" >>] = 1
    /\ \E i \in 1..Len(telegram_file) : telegram_file[i].chat_id = 42
    /\ \E i \in 1..Len(telegram_file) : telegram_file[i].chat_id = 7

====
